---- MODULE Spec2Model ----
(***************************************************************************)
(* The control plane of the LWA-352 correlator/beamformer pipeline         *)
(* (caltech-bifrost-dsp).                                                  *)
(*                                                                         *)
(* Part 1: EtcdCorrControl._send_command_etcd, the synchronous             *)
(* request/response call emulated over etcd put + watch                    *)
(* (pipeline-control/lwa352_pipeline_control/etcd_control.py).             *)
(*                                                                         *)
(* Two calls are modelled.  Each is made once, at any moment: both on the  *)
(* same client object (two threads of one client, or one call after the    *)
(* other on it; Spec) or on two objects (SpecTwoClients).  Both address    *)
(* the same xhost, so they share the command and the response key.         *)
(* The responder is the environment: it puts any value to the response     *)
(* key.  The etcd3 watcher of a client object runs the callbacks of that   *)
(* object one at a time, outside the caller's thread; cancel_watch removes *)
(* the registration and the undelivered events, and does not stop a        *)
(* callback that is already running.                                       *)
(*                                                                         *)
(* Time is a global clock in ticks of half a poll interval (5 ms).         *)
(* Statements take no time; the clock advances only while every call in    *)
(* progress is inside time.sleep, and a sleep lasts at least the poll      *)
(* interval (it may last longer).                                          *)
(*                                                                         *)
(* One action is one access to state another thread can see, together with *)
(* the thread-local statements around it.  cancel_watch is taken in the    *)
(* same step as the flag or clock test before it: once its watch is        *)
(* cancelled a call reads nothing cancel_watch changed, so delaying the    *)
(* cancellation to that step's place reaches no new state.                 *)
(***************************************************************************)
EXTENDS Integers, Sequences, FiniteSets, TLC

\* ---------------------------------------------------------------- bounds
\* the last clock reading, with two calls and with one
MaxTime == 2
MaxPollTime == 5
\* the number of puts to the response key
MaxPuts == 2

\* ------------------------------------------------------ program constants
\* time.sleep(0.01), in clock ticks
PollInterval == 2
\* int(timestamp * 1e6): microseconds in one clock tick
MicrosPerTick == 5000

\* ------------------------------------------------------------ input sets
Calls == {1, 2}
Objs == {"A", "B"}
\* the timeout argument, in clock ticks: one value that is no whole number
\* of poll intervals, one that is
Timeouts == {1, 2}
\* the timeout argument where two calls run
ShortTimeouts == {1}
\* the kwargs argument: JSON-serialisable or not
KwargsKinds == {"serialisable", "unserialisable"}

\* Python values the call can return besides a response payload
PyNone == "None"
PyFalse == "False"

\* JSON texts of val.response the responder may send
WirePayloads == {"null", "{a}"}
\* (val.status, val.response) pairs the responder may send
ResponseVals ==
  { [status |-> "normal", response |-> "null"],
    [status |-> "error",  response |-> "{a}"] }

\* str(int(timestamp * 1e6)) for a clock reading in ticks
SequenceId(timestamp) == timestamp * MicrosPerTick

\* Values put to the response key: text that is no JSON, JSON that is no
\* object, or a Response Envelope
BadJson == [kind |-> "bad"]
NonObject == [kind |-> "nonobject"]
Envelope(id, v) ==
  [kind |-> "resp", id |-> id, status |-> v.status, response |-> v.response]

\* json.loads of a val.response text: JSON null is Python None
JsonLoadsPayload(w) == IF w = "null" THEN PyNone ELSE w

\* json.loads(event.value.decode()) of a Response Envelope
JsonLoads(e) ==
  [id |-> e.id, status |-> e.status, response |-> JsonLoadsPayload(e.response)]

\* --------------------------------------------- parts 2 and 3: constants
\* Part 2: BeamformControl._get_when_to_execute and the coefficient updates
\* built on it (pipeline-control/lwa352_pipeline_control/blocks/
\* beamform_control.py).  The wall clock time.time() is counted in
\* milliseconds; one call is made, at any clock reading up to MaxWall.
MaxWall == 2100

MsPerSecond == 1000
\* the divisor of slot/100.0
SlotsPerSecond == 100

Slots == {0, 1, 50, 99, 100}
CoeffTypes == {"calibration", "gains", "delays"}

\* Part 3: CorrSubSel, the baseline subselection block
\* (test-scripts/blocks/corr_subsel_block.py): the processing loop main()
\* and the threads that call update_subsel, directly or through the etcd
\* callback _etcd_update_subsel.  The arrays have nvis_out entries (4656 in
\* the source, scaled down here); an array is a sequence of that length.
nvis_out == 2
\* update calls made in all, and spans the input ring delivers
MaxUpdates == 3
MaxSpans == 2

Updaters == {"updater1", "updater2"}

\* Parts 1b and 1c: EtcdCorrControl.send_command, get_status and the key
\* functions _get_cmd_key, _get_mon_key (etcd_control.py).  A string is the
\* sequence of its characters.
\* client calls made in all
MaxCalls == 2

\* Part 2: the channels of an array of gains or delays, at most
MaxChan == 2
Main == "main"
NoHolder == "unlocked"

VARIABLES
  now,                 \* time.time(), in ticks
  objOf,               \* the client object (self) of each call
  pc,                  \* each call's position in _send_command_etcd
  kwargs,              \* each call's kwargs argument
  timeout,             \* each call's timeout argument
  sequence_id,         \* local sequence_id
  command_json,        \* local command_json
  starttime,           \* local starttime
  wake,                \* when the call's next pass of the poll loop is due
  watches,             \* calls whose watch callback is registered
  pending,             \* events not yet delivered to each watch
  cbpc,                \* position of each call's running response_callback
  cbEvents,            \* watchresponse.events still to be handled
  _response_received,  \* self._response_received of each client object
  _response,           \* self._response of each client object
  store,               \* the etcd keys the client writes
  ret,                 \* what each call returned or raised
  log,                 \* the lines the latest step logged
  nputs,               \* number of puts the responder has made
  \* history variables
  registered,          \* calls that have registered a watch
  sent,                \* calls whose envelope was put to the command key
  retDict,             \* the self._response a call read at its return
  delivered,           \* the first envelope the call's callback stored, flag
                       \* set, while the call was in its loop
  drift,               \* a pass of the call's poll loop ran later than due
  retTime,             \* time.time() - starttime at the call's timeout check
  retTimeout           \* the timeout argument of a call that timed out

VARIABLES
  \* part 2
  wall,                \* time.time(), in milliseconds
  coeffs,              \* the coeffs dict the update call built
  slot,                \* the slot argument of the update call
  computedAt,          \* history: time.time() as _get_when_to_execute read it
  update,              \* history: the update call made, with its arguments
  \* part 3
  _subsel,             \* self._subsel, the live indices (GPU)
  _subsel_next,        \* self._subsel_next, the shadow indices (host)
  _subsel_pending,     \* self._subsel_pending, the dirty flag
  _subsel_lock,        \* holder of self._subsel_lock
  mpc,                 \* position of main()
  upc,                 \* position of each updating thread
  subsel,              \* the subsel argument of each update_subsel call
  written,             \* entries of _subsel_next line 76 has stored so far
  blog,                \* the lines the latest step of the block logged
  nupdates,            \* update calls made so far
  nspans,              \* spans read so far
  \* history variables of part 3
  assigned,            \* _subsel has been assigned since its allocation
  accepted             \* the arrays update_subsel has accepted so far

VARIABLES
  \* part 1c: the store and the calls send_command and get_status
  kv,                  \* the etcd store: key |-> stored text
  ops,                 \* history: the store operations the clients have made
  calls,               \* history: the calls made, each with its outcome
  clog,                \* the lines the calls logged
  \* part 1b: the key functions
  address,             \* the block address of each key computation
  cmd_key,             \* what _get_cmd_key returned for it
  mon_key              \* what _get_mon_key returned for it

VARIABLES
  \* part 4: DummySource
  dsrc,                \* the constructor's arguments: nchan, nstand, npol, header
  hdr,                 \* the header of the output sequence, once it is begun
  dpc,                 \* where main() is
  time_tag             \* the local time_tag of main(): spans written

sourceVars == << dsrc, hdr, dpc, time_tag >>

VARIABLES
  \* part 2b: callers of _get_when_to_execute on nodes with one clock
  called,
  calledAt,
  calledSlot,
  stamp

callerVars == << called, calledAt, calledSlot, stamp >>

VARIABLES
  \* part 5: Beamform, the beamformer block (beamform_block.py)
  _pending,            \* self._pending, the deque of (config_time, config)
  cgains,              \* the configurations self.cgains was computed from
  base_time_tag,       \* base_time_tag of main()
  bfpc,                \* position of Beamform.main
  status,              \* what the latest updateConfig call returned
  passed,              \* history: the updateConfig calls given a configuration
  ngulps               \* gulps read so far

beamVars == << _pending, cgains, base_time_tag, bfpc, status, passed, ngulps >>

etcdVars ==
  << now, objOf, pc, kwargs, timeout, sequence_id, command_json, starttime, wake, watches,
     pending, cbpc, cbEvents, _response_received, _response, store, ret, log,
     nputs, registered, sent, retDict, delivered, drift, retTime,
     retTimeout >>

whenVars == << wall, coeffs, slot, computedAt, update >>

subselVars ==
  << _subsel, _subsel_next, _subsel_pending, _subsel_lock, mpc, upc, subsel,
     written, blog, nupdates, nspans, assigned, accepted >>

storeVars == << kv, ops, calls, clog >>

keyVars == << address, cmd_key, mon_key >>

vars == << etcdVars, whenVars, subselVars, storeVars, keyVars, sourceVars, callerVars, beamVars >>
notBeamVars == << etcdVars, whenVars, subselVars, storeVars, keyVars, sourceVars, callerVars >>
notCallerVars == << etcdVars, whenVars, subselVars, storeVars, keyVars, sourceVars, beamVars >>

notSourceVars == << etcdVars, whenVars, subselVars, storeVars, keyVars, callerVars, beamVars >>

\* what the actions of each part leave alone
notEtcdVars == << whenVars, subselVars, storeVars, keyVars, sourceVars, callerVars, beamVars >>
notWhenVars == << etcdVars, subselVars, storeVars, keyVars, sourceVars, callerVars, beamVars >>
notSubselVars == << etcdVars, whenVars, storeVars, keyVars, sourceVars, callerVars, beamVars >>
notStoreVars == << etcdVars, whenVars, subselVars, keyVars, sourceVars, callerVars, beamVars >>
notKeyVars == << etcdVars, whenVars, subselVars, storeVars, sourceVars, callerVars, beamVars >>
\* an update call of BeamformControl sends: it touches kv and ops as well
notUpdateVars == << etcdVars, subselVars, keyVars, calls, clog, sourceVars, callerVars, beamVars >>

histVars ==
  << registered, sent, retDict, delivered, drift, retTime, retTimeout >>

\* Python None where a dict or a JSON text is expected
NoDict == [kind |-> "none"]

\* no update call
NoUpdate == [name |-> "none", id |-> 0, array |-> <<>>]

\* Part 2: no update call made yet, time.time() reads t
InitBeamformControlAt(t) ==
  /\ wall = t
  /\ coeffs = NoDict
  /\ slot = 0
  /\ computedAt = 0
  /\ update = NoUpdate

InitBeamformControl == InitBeamformControlAt(0)

\* Part 2b: the nodes that call _get_when_to_execute; none has called
Nodes == {"node1", "node2"}

InitCallers ==
  /\ called = {}
  /\ calledAt = [n \in Nodes |-> 0]
  /\ calledSlot = [n \in Nodes |-> 0]
  /\ stamp = [n \in Nodes |-> 0]

\* Part 5: Beamform.__init__, lines 25-69: the deque is empty (line 52) and
\* no configuration has been loaded; main() has not begun
InitBeamform ==
  /\ _pending = << >>
  /\ cgains = << >>
  /\ base_time_tag = 0
  /\ bfpc = "sequence"
  /\ status = "unset"
  /\ passed = << >>
  /\ ngulps = 0

\* Part 1b: the key computations the model keeps side by side
KeySlots == {1, 2}

\* no address: the computation has not been made
NoAddress == [host |-> <<>>, pipeline |-> 0, block |-> <<>>, inst_id |-> 0]

InitKeys ==
  /\ address = [i \in KeySlots |-> NoAddress]
  /\ cmd_key = [i \in KeySlots |-> <<>>]
  /\ mon_key = [i \in KeySlots |-> <<>>]

\* Part 1c: an empty store, no call made
InitStore ==
  /\ kv = [k \in {} |-> k]
  /\ ops = <<>>
  /\ calls = <<>>
  /\ clog = {}

\* Part 4: DummySource.__init__ (lines 131-144) with the given arguments;
\* main() not started, no header yet
InitDummySourceWith(nchan, nstand, npol, header) ==
  /\ dsrc = [nchan |-> nchan, nstand |-> nstand, npol |-> npol,
             header_base |-> header]
  /\ hdr = [k \in {} |-> k]
  /\ dpc = "init"
  /\ time_tag = 0

\* the defaults of nchan, nstand, npol have other sizes; the header default
\* is {}
InitDummySource == InitDummySourceWith(1, 1, 1, [k \in {} |-> k])

\* A decoded JSON value handed to the block: a list of `items` entries,
\* either all integers (`data`) or entries that are lists themselves; or a
\* value that is no list; or a text that is no JSON
FlatList(seq) == [kind |-> "list", flat |-> TRUE, items |-> Len(seq), data |-> seq]
NestedList(n) == [kind |-> "list", flat |-> FALSE, items |-> n, data |-> <<>>]
NotAList == [kind |-> "nonlist", flat |-> FALSE, items |-> 0, data |-> <<>>]
NotJson == [kind |-> "notjson", flat |-> FALSE, items |-> 0, data |-> <<>>]
\* no update_subsel call in progress
NoArg == FlatList(<<>>)

\* list(range(n))
Range(n) == [i \in 1..n |-> i - 1]

\* What the freshly allocated GPU array self._subsel (line 50) can hold: it
\* is not initialised, so any content, which may or may not look like a
\* selection
Unassigned == {[i \in 1..nvis_out |-> -1], Range(nvis_out)}

\* Mutant: the block starts clean
InitialPending_Clean == FALSE

\* line 52, self._subsel_pending = True
InitialPending == TRUE

\* Part 3: CorrSubSel.__init__, lines 50-53
InitCorrSubSel(garbage) ==
  /\ _subsel = garbage
  /\ _subsel_next = Range(nvis_out)
  /\ _subsel_pending = InitialPending
  /\ _subsel_lock = NoHolder
  /\ mpc = "next_span"
  /\ upc = [u \in Updaters |-> "idle"]
  /\ subsel = [u \in Updaters |-> NoArg]
  /\ written = [u \in Updaters |-> 0]
  /\ blog = {}
  /\ nupdates = 0
  /\ nspans = 0
  /\ assigned = FALSE
  /\ accepted = {}

\* The attributes _response_received and _response do not exist before the
\* first call on an object; every read of them follows lines 195-196 of
\* the reading call, so their initial values are never observed.
InitOn(objs) ==
  /\ now = 0
  /\ objOf = objs
  /\ pc = [c \in Calls |-> "idle"]
  /\ kwargs = [c \in Calls |-> "serialisable"]
  /\ timeout = [c \in Calls |-> 0]
  /\ sequence_id = [c \in Calls |-> 0]
  /\ command_json = [c \in Calls |-> NoDict]
  /\ starttime = [c \in Calls |-> 0]
  /\ wake = [c \in Calls |-> 0]
  /\ watches = {}
  /\ pending = [c \in Calls |-> <<>>]
  /\ cbpc = [c \in Calls |-> "idle"]
  /\ cbEvents = [c \in Calls |-> <<>>]
  /\ _response_received = [o \in Objs |-> FALSE]
  /\ _response = [o \in Objs |-> NoDict]
  /\ store = [cmd |-> NoDict]
  /\ ret = [c \in Calls |-> "running"]
  /\ log = {}
  /\ nputs = 0
  /\ registered = {}
  /\ sent = {}
  /\ retDict = [c \in Calls |-> NoDict]
  /\ delivered = [c \in Calls |-> NoDict]
  /\ drift = [c \in Calls |-> FALSE]
  /\ retTime = [c \in Calls |-> 0]
  /\ retTimeout = [c \in Calls |-> 0]

\* ------------------------------------------------------------- helpers
Obj(c) == objOf[c]

\* Mutant: the encoding failure is not noticed
FormatCommand_NeverNone(sid, ts, kw) ==
  [kind |-> "cmd", id |-> sid, timestamp |-> ts, kwargs |-> kw]

\* _format_command: the JSON text of the Command Envelope, None when
\* json.dumps raises
FormatCommand(sid, ts, kw) ==
  IF kw = "serialisable"
  THEN [kind |-> "cmd", id |-> sid, timestamp |-> ts, kwargs |-> kw]
  ELSE NoDict

\* Mutant: the callback accepts a response whatever its id
IdMatches_Any(resp_id, sid) == TRUE

\* Mutant: the callback accepts the responses to earlier commands too
IdMatches_AtMost(resp_id, sid) == resp_id <= sid

\* resp_id == sequence_id (line 208)
IdMatches(resp_id, sid) == resp_id = sid

\* Mutant: the time is up as soon as the timeout is reached
TimedOut_AtTimeout(t, start, to) == t >= start + to

\* time.time() > starttime + timeout (line 226)
TimedOut(t, start, to) == t > start + to

\* Mutant: the watch is left registered
CancelWatch_Forgotten(c) == watches

\* ec.cancel_watch(watch_id): the registration is removed
CancelWatch(c) == watches \ {c}

\* Mutant: the command is sent before the watch is registered
SendOrder_PutFirst == <<"put", "add_watch">>

\* The order of the two statements of lines 214-217
SendOrder == <<"add_watch", "put">>

\* The statement after `step` of lines 214-217; starttime is read after
\* the second of them (line 218) and the loop of line 219 is entered
AfterSend(c, step) ==
  IF step = SendOrder[1]
  THEN /\ pc' = [pc EXCEPT ![c] = SendOrder[2]]
       /\ UNCHANGED <<starttime, wake>>
  ELSE /\ pc' = [pc EXCEPT ![c] = "poll"]
       /\ starttime' = [starttime EXCEPT ![c] = now]
       /\ wake' = [wake EXCEPT ![c] = now]

\* The call is left (return or raise): its locals starttime and timeout and
\* its sleep are gone; sequence_id lives on in the callback's closure
Locals(c, start, to, due) ==
  /\ starttime' = [starttime EXCEPT ![c] = start]
  /\ timeout' = [timeout EXCEPT ![c] = to]
  /\ wake' = [wake EXCEPT ![c] = due]

\* ids of the envelopes written to the command key so far
SentIds == { sequence_id[c] : c \in sent }

\* what a responder may put to the response key: an answer to a command
\* it has seen, or text that is no JSON
ResponseValues ==
  {BadJson} \cup { Envelope(id, v) : id \in SentIds, v \in ResponseVals }

\* ---------------------------------------------------- _send_command_etcd
\* lines 181-193: ids, _format_command, return False on encoding failure.
\* Calls are numbered in the order they start.
Enter(c, kw, to) ==
  /\ pc[c] = "idle"
  /\ \A d \in Calls : d < c => pc[d] # "idle"
  /\ LET ts == now
         sid == SequenceId(ts)
         cj == FormatCommand(sid, ts, kw)
     IN /\ kwargs' = [kwargs EXCEPT ![c] = kw]
        /\ timeout' = [timeout EXCEPT ![c] = IF cj = NoDict THEN 0 ELSE to]
        /\ sequence_id' = [sequence_id EXCEPT ![c] = sid]
        /\ command_json' = [command_json EXCEPT ![c] = cj]
        /\ IF cj = NoDict
           THEN /\ pc' = [pc EXCEPT ![c] = "returned"]
                /\ ret' = [ret EXCEPT ![c] = PyFalse]
                /\ log' = {<<c, "Failed to JSON-encode command">>}
           ELSE /\ pc' = [pc EXCEPT ![c] = "reset_flag"]
                /\ log' = {}
                /\ UNCHANGED ret
  /\ UNCHANGED << now, objOf, starttime, wake, watches, pending, cbpc,
                  cbEvents, _response_received, _response, store, nputs >>
  /\ UNCHANGED histVars
  /\ UNCHANGED notEtcdVars

\* line 195
ResetFlag(c) ==
  /\ pc[c] = "reset_flag"
  /\ _response_received' = [_response_received EXCEPT ![Obj(c)] = FALSE]
  /\ pc' = [pc EXCEPT ![c] = "reset_resp"]
  /\ log' = {}
  /\ UNCHANGED << now, objOf, kwargs, timeout, sequence_id, command_json,
                  starttime, wake, watches, pending, cbpc, cbEvents,
                  _response, store, ret, nputs >>
  /\ UNCHANGED histVars
  /\ UNCHANGED notEtcdVars

\* line 196
ResetResp(c) ==
  /\ pc[c] = "reset_resp"
  /\ _response' = [_response EXCEPT ![Obj(c)] = NoDict]
  /\ pc' = [pc EXCEPT ![c] = SendOrder[1]]
  /\ log' = {}
  /\ UNCHANGED << now, objOf, kwargs, timeout, sequence_id, command_json,
                  starttime, wake, watches, pending, cbpc, cbEvents,
                  _response_received, store, ret, nputs >>
  /\ UNCHANGED histVars
  /\ UNCHANGED notEtcdVars

\* line 215: ec.add_watch_callback(resp_key, response_callback)
AddWatch(c) ==
  /\ pc[c] = "add_watch"
  /\ watches' = watches \cup {c}
  /\ registered' = registered \cup {c}
  /\ AfterSend(c, "add_watch")
  /\ log' = {}
  /\ UNCHANGED << now, objOf, kwargs, timeout, sequence_id, command_json,
                  pending, cbpc, cbEvents, _response_received, _response,
                  store, ret, nputs >>
  /\ UNCHANGED << sent, retDict, delivered, drift,
                  retTime, retTimeout >>
  /\ UNCHANGED notEtcdVars

\* line 217: ec.put(cmd_key, command_json)
PutCmd(c) ==
  /\ pc[c] = "put"
  /\ store' = [store EXCEPT !.cmd = command_json[c]]
  /\ sent' = sent \cup {c}
  /\ AfterSend(c, "put")
  /\ log' = {}
  /\ UNCHANGED << now, objOf, kwargs, timeout, sequence_id, command_json,
                  watches, pending, cbpc, cbEvents, _response_received,
                  _response, ret, nputs >>
  /\ UNCHANGED << registered, retDict, delivered, drift,
                  retTime, retTimeout >>
  /\ UNCHANGED notEtcdVars

\* line 217 when the store write fails: the exception leaves the call
PutCmdFails(c) ==
  /\ pc[c] = "put"
  /\ pc' = [pc EXCEPT ![c] = "raised"]
  /\ ret' = [ret EXCEPT ![c] = "PutError"]
  /\ Locals(c, 0, 0, 0)
  /\ log' = {}
  /\ UNCHANGED << now, objOf, kwargs, sequence_id, command_json,
                  watches, pending, cbpc, cbEvents,
                  _response_received, _response, store, nputs >>
  /\ UNCHANGED histVars
  /\ UNCHANGED notEtcdVars

\* A pass of the loop of line 219 starts: the first right after line 218,
\* the next when time.sleep(0.01) has ended, at its due time or later
PassStarts(c) ==
  /\ pc[c] = "poll"
  /\ now >= wake[c]
  /\ drift' = [drift EXCEPT ![c] = drift[c] \/ now > wake[c]]

\* lines 220-221: the flag is set; cancel the watch
PollFound(c) ==
  /\ PassStarts(c)
  /\ _response_received[Obj(c)]
  /\ watches' = CancelWatch(c)
  /\ pending' = [pending EXCEPT ![c] = <<>>]
  /\ pc' = [pc EXCEPT ![c] = "read_status"]
  /\ log' = {}
  /\ UNCHANGED << now, objOf, kwargs, timeout, sequence_id, command_json,
                  starttime, wake, cbpc, cbEvents, _response_received,
                  _response, store, ret, nputs >>
  /\ UNCHANGED << registered, sent, retDict, delivered, retTime, retTimeout >>
  /\ UNCHANGED notEtcdVars

\* lines 220, 226-228: the flag is not set and the time is up; cancel the
\* watch, return None
PollTimeout(c) ==
  /\ PassStarts(c)
  /\ ~_response_received[Obj(c)]
  /\ TimedOut(now, starttime[c], timeout[c])
  /\ watches' = CancelWatch(c)
  /\ pending' = [pending EXCEPT ![c] = <<>>]
  /\ pc' = [pc EXCEPT ![c] = "returned"]
  /\ ret' = [ret EXCEPT ![c] = PyNone]
  /\ retTime' = [retTime EXCEPT ![c] = now - starttime[c]]
  /\ retTimeout' = [retTimeout EXCEPT ![c] = timeout[c]]
  /\ Locals(c, 0, 0, 0)
  /\ log' = {}
  /\ UNCHANGED << now, objOf, kwargs, sequence_id, command_json,
                  cbpc, cbEvents, _response_received,
                  _response, store, nputs >>
  /\ UNCHANGED << registered, sent, retDict, delivered >>
  /\ UNCHANGED notEtcdVars

\* lines 220, 226, 229: neither; time.sleep(0.01)
PollSleep(c) ==
  /\ PassStarts(c)
  /\ ~_response_received[Obj(c)]
  /\ ~TimedOut(now, starttime[c], timeout[c])
  /\ wake' = [wake EXCEPT ![c] = now + PollInterval]
  /\ log' = {}
  /\ UNCHANGED << now, objOf, pc, kwargs, timeout, sequence_id, command_json,
                  starttime, watches, pending, cbpc, cbEvents,
                  _response_received, _response, store, ret, nputs >>
  /\ UNCHANGED << registered, sent, retDict, delivered, retTime, retTimeout >>
  /\ UNCHANGED notEtcdVars

\* lines 222-224: status = self._response['val']['status']
ReadStatus(c) ==
  /\ pc[c] = "read_status"
  /\ IF _response[Obj(c)] = NoDict
     THEN /\ pc' = [pc EXCEPT ![c] = "raised"]
          /\ ret' = [ret EXCEPT ![c] = "TypeError"]
          /\ Locals(c, 0, 0, 0)
          /\ log' = {}
     ELSE /\ pc' = [pc EXCEPT ![c] = "read_response"]
          /\ log' = IF _response[Obj(c)].status # "normal"
                    THEN {<<c, "Command status returned">>}
                    ELSE {}
          /\ UNCHANGED <<ret, starttime, timeout, wake>>
  /\ UNCHANGED << now, objOf, kwargs, sequence_id, command_json,
                  watches, pending, cbpc, cbEvents,
                  _response_received, _response, store, nputs >>
  /\ UNCHANGED histVars
  /\ UNCHANGED notEtcdVars

\* line 225: return self._response['val']['response']
ReadResponse(c) ==
  /\ pc[c] = "read_response"
  /\ Locals(c, 0, 0, 0)
  /\ IF _response[Obj(c)] = NoDict
     THEN /\ pc' = [pc EXCEPT ![c] = "raised"]
          /\ ret' = [ret EXCEPT ![c] = "TypeError"]
          /\ UNCHANGED retDict
     ELSE /\ pc' = [pc EXCEPT ![c] = "returned"]
          /\ ret' = [ret EXCEPT ![c] = _response[Obj(c)].response]
          /\ retDict' = [retDict EXCEPT ![c] = _response[Obj(c)]]
  /\ log' = {}
  /\ UNCHANGED << now, objOf, kwargs, sequence_id, command_json,
                  watches, pending, cbpc, cbEvents,
                  _response_received, _response, store, nputs >>
  /\ UNCHANGED << registered, sent, delivered, drift,
                  retTime, retTimeout >>
  /\ UNCHANGED notEtcdVars

\* The clock advances while no call is between two statements.  Clock
\* reading 0 is the start of the first call.
Tick(limit) ==
  /\ now < limit
  /\ \E c \in Calls : pc[c] # "idle"
  /\ \A c \in Calls : pc[c] \in {"idle", "poll", "returned", "raised"}
  /\ \E c \in Calls : pc[c] \in {"idle", "poll"}
  /\ now' = now + 1
  /\ log' = {}
  /\ UNCHANGED << objOf, pc, kwargs, timeout, sequence_id, command_json,
                  starttime, wake, watches, pending, cbpc, cbEvents,
                  _response_received, _response, store, ret, nputs >>
  /\ UNCHANGED histVars
  /\ UNCHANGED notEtcdVars

\* ----------------------------------------------------- response_callback
\* Mutant: a decode error ends the loop
OnDecodeError_Break(events) == <<>>

\* except: log, continue (lines 203-205): the events left to handle
OnDecodeError(events) == Tail(events)

\* Lines 199-208 and 211-212 from the head of `events` on: the events left
\* when the loop reaches line 209 (the head is then the event to store),
\* none when the loop ends first.  An event that is no JSON is logged and
\* skipped; a JSON value that is no object makes response_dict.get raise,
\* which ends the callback; an id that does not match is skipped.
RECURSIVE ToNextMatch(_, _)
ToNextMatch(events, sid) ==
  IF events = <<>> THEN <<>>
  ELSE LET e == Head(events)
       IN CASE e.kind = "bad" -> ToNextMatch(OnDecodeError(events), sid)
            [] e.kind = "nonobject" -> <<>>
            [] OTHER -> IF IdMatches(e.id, sid)
                        THEN events
                        ELSE ToNextMatch(Tail(events), sid)

\* The decode errors logged on the way (line 204)
DecodeErrorsLogged(c, events, left) ==
  IF \E i \in 1..(Len(events) - Len(left)) : events[i].kind = "bad"
  THEN {<<c, "Response JSON decode error">>}
  ELSE {}

\* The callback goes on with `events`
CbContinue(c, events) ==
  LET left == ToNextMatch(events, sequence_id[c])
  IN /\ cbEvents' = [cbEvents EXCEPT ![c] = left]
     /\ cbpc' = [cbpc EXCEPT ![c] = IF left = <<>> THEN "idle" ELSE "store"]
     /\ log' = DecodeErrorsLogged(c, events, left)

\* The watcher of the call's client object invokes response_callback with
\* the first k undelivered events of the watch (line 198)
Deliver(c, k) ==
  /\ c \in watches
  /\ k \in 1..Len(pending[c])
  /\ \A d \in Calls : Obj(d) = Obj(c) => cbpc[d] = "idle"
  /\ pending' = [pending EXCEPT ![c] = SubSeq(pending[c], k + 1, Len(pending[c]))]
  /\ CbContinue(c, SubSeq(pending[c], 1, k))
  /\ UNCHANGED << now, objOf, pc, kwargs, timeout, sequence_id, command_json,
                  starttime, wake, watches, _response_received, _response,
                  store, ret, nputs >>
  /\ UNCHANGED histVars
  /\ UNCHANGED notEtcdVars

\* line 209: self._response = response_dict
CbStore(c) ==
  /\ cbpc[c] = "store"
  /\ _response' = [_response EXCEPT ![Obj(c)] = JsonLoads(Head(cbEvents[c]))]
  /\ cbpc' = [cbpc EXCEPT ![c] = "flag"]
  /\ log' = {}
  /\ UNCHANGED << now, objOf, pc, kwargs, timeout, sequence_id, command_json,
                  starttime, wake, watches, pending, cbEvents,
                  _response_received, store, ret, nputs >>
  /\ UNCHANGED histVars
  /\ UNCHANGED notEtcdVars

\* line 210: self._response_received = True; then the next events
CbFlag(c) ==
  /\ cbpc[c] = "flag"
  /\ _response_received' = [_response_received EXCEPT ![Obj(c)] = TRUE]
  /\ delivered' = IF pc[c] = "poll" /\ delivered[c] = NoDict
                  THEN [delivered EXCEPT ![c] = JsonLoads(Head(cbEvents[c]))]
                  ELSE delivered
  /\ CbContinue(c, Tail(cbEvents[c]))
  /\ UNCHANGED << now, objOf, pc, kwargs, timeout, sequence_id, command_json,
                  starttime, wake, watches, pending, _response, store, ret,
                  nputs >>
  /\ UNCHANGED << registered, sent, retDict, drift,
                  retTime, retTimeout >>
  /\ UNCHANGED notEtcdVars

\* ------------------------------------------------------------ environment
\* A responder puts v to the response key; etcd queues the event for every
\* registered watch of the key
RespPut(v) ==
  /\ nputs < MaxPuts
  /\ nputs' = nputs + 1
  /\ pending' = [c \in Calls |->
                   IF c \in watches THEN Append(pending[c], v) ELSE pending[c]]
  /\ log' = {}
  /\ UNCHANGED << now, objOf, pc, kwargs, timeout, sequence_id, command_json,
                  starttime, wake, watches, cbpc, cbEvents,
                  _response_received, _response, store, ret >>
  /\ UNCHANGED histVars
  /\ UNCHANGED notEtcdVars

\* The statements of a call after its entry
CallStep(c) ==
  \/ ResetFlag(c)
  \/ ResetResp(c)
  \/ AddWatch(c)
  \/ PutCmd(c)
  \/ PollFound(c)
  \/ PollTimeout(c)
  \/ PollSleep(c)
  \/ ReadStatus(c)
  \/ ReadResponse(c)

\* The watcher thread running the call's callback
CallbackStep(c) ==
  \/ \E k \in 1..MaxPuts : Deliver(c, k)
  \/ CbStore(c)
  \/ CbFlag(c)

\* Two calls on one client object: two threads of one client, or one call
\* after the other on it
Init ==
  /\ InitOn([c \in Calls |-> "A"])
  /\ InitBeamformControl
  /\ InitCorrSubSel(Range(nvis_out))
  /\ InitKeys
  /\ InitStore
  /\ InitBeamform
  /\ InitCallers
  /\ InitDummySource

\* Two calls on two client objects
InitTwoClients ==
  /\ InitOn([c \in Calls |-> IF c = 1 THEN "A" ELSE "B"])
  /\ InitBeamformControl
  /\ InitCorrSubSel(Range(nvis_out))
  /\ InitKeys
  /\ InitStore
  /\ InitBeamform
  /\ InitCallers
  /\ InitDummySource

Next ==
  \/ \E c \in Calls, kw \in KwargsKinds, to \in ShortTimeouts : Enter(c, kw, to)
  \/ \E c \in Calls : CallStep(c)
  \/ \E c \in Calls : CallbackStep(c)
  \/ \E v \in ResponseValues : RespPut(v)
  \/ Tick(MaxTime)

Spec == Init /\ [][Next]_vars

SpecTwoClients == InitTwoClients /\ [][Next]_vars

\* One call, followed through its whole poll loop, with the failure of the
\* put and with responses that are JSON but no object
NextOneCall ==
  \/ \E kw \in KwargsKinds, to \in Timeouts : Enter(1, kw, to)
  \/ CallStep(1)
  \/ PutCmdFails(1)
  \/ CallbackStep(1)
  \/ \E v \in ResponseValues \cup {NonObject} : RespPut(v)
  \/ Tick(MaxPollTime)

SpecOneCall == Init /\ [][NextOneCall]_vars

\* =================================================== part 1b: block keys
\* _get_cmd_key and _get_mon_key of EtcdCorrControl.  A string is the sequence
\* of its characters, so that what the format puts between the components
\* decides whether two addresses can share a key.

Slash == <<"/">>

Digits == <<"0", "1", "2", "3", "4", "5", "6", "7", "8", "9">>

\* the roots the constructor sets by default
keyroot_cmd == <<"/", "c", "m", "d", "/", "c", "o", "r", "r", "/", "x">>

keyroot_mon == <<"/", "m", "o", "n", "/", "c", "o", "r", "r", "/", "x">>

\* the literal parts of the two formats
PipelineLit == <<"p", "i", "p", "e", "l", "i", "n", "e">>

CtrlLit == <<"c", "t", "r", "l">>

StatusLit == <<"s", "t", "a", "t", "u", "s">>

\* the inputs: two plain hosts and blocks, and one of each that has "/" in it
HostWithSlash == <<"h", "/">> \o PipelineLit \o <<"/", "1", "/", "b">>

BlockWithSlash == <<"b", "/">> \o PipelineLit \o <<"/", "0", "/", "c">>

Hosts == {<<"h">>, <<"h", "1">>, HostWithSlash}

Blocks == {<<"b">>, <<"c">>, BlockWithSlash}

Pipelines == {0, 1, 10}

InstIds == {0, 1}

Addresses == [host : Hosts, pipeline : Pipelines, block : Blocks, inst_id : InstIds]

\* a mutant of FormatD: only the last digit is written
FormatD_LastDigit(n) == << Digits[(n % 10) + 1] >>

\* '%d' % n for an integer n
RECURSIVE FormatD(_)
FormatD(n) ==
  IF n < 0 THEN <<"-">> \o FormatD(-n)
  ELSE IF n < 10 THEN << Digits[n + 1] >>
  ELSE FormatD(n \div 10) \o << Digits[(n % 10) + 1] >>

\* '/%s/pipeline/%d/%s/%d/' % (host, pipeline, block, inst_id), the part the
\* two formats share
BlockPath(a) ==
  Slash \o a.host \o Slash \o PipelineLit \o Slash \o FormatD(a.pipeline)
    \o Slash \o a.block \o Slash \o FormatD(a.inst_id) \o Slash

_get_cmd_key(a) == keyroot_cmd \o BlockPath(a) \o CtrlLit

_get_mon_key(a) == keyroot_mon \o BlockPath(a) \o StatusLit

\* a caller computes the command key of a block
GetCmdKey(i, a) ==
  /\ address[i] \in {NoAddress, a}
  /\ cmd_key[i] = <<>>
  /\ address' = [address EXCEPT ![i] = a]
  /\ cmd_key' = [cmd_key EXCEPT ![i] = _get_cmd_key(a)]
  /\ UNCHANGED mon_key
  /\ UNCHANGED notKeyVars

\* a caller computes the status key of a block
GetMonKey(i, a) ==
  /\ address[i] \in {NoAddress, a}
  /\ mon_key[i] = <<>>
  /\ address' = [address EXCEPT ![i] = a]
  /\ mon_key' = [mon_key EXCEPT ![i] = _get_mon_key(a)]
  /\ UNCHANGED cmd_key
  /\ UNCHANGED notKeyVars

NextKeys ==
  \E i \in KeySlots, a \in Addresses :
    \/ GetCmdKey(i, a)
    \/ GetMonKey(i, a)

\* ============================== part 1c: send_command and get_status
\* Python values: numbers, lists, tuples, dicts with string keys, None, and
\* a numpy array, which json.dumps does not take
PyNum(n) == [t |-> "num", n |-> n]

PyStr(s) == [t |-> "str", s |-> s]

PyList(seq) == [t |-> "list", elems |-> seq]

PyTuple(seq) == [t |-> "tuple", elems |-> seq]

PyDict(f) == [t |-> "dict", items |-> f]

PyNdarray == [t |-> "ndarray"]

NoneValue == [t |-> "None"]

EmptyDict == PyDict([k \in {} |-> k])

\* JSON values, as they are in a text
JsonNumber(n) == [t |-> "number", n |-> n]

JsonString(s) == [t |-> "string", s |-> s]

JsonArray(seq) == [t |-> "array", entries |-> seq]

JsonObject(f) == [t |-> "object", members |-> f]

JsonNull == [t |-> "null"]

\* a text that holds a JSON value, and one that is no JSON
JsonText(j) == [t |-> "text", json |-> j]

Garbage == [t |-> "text", json |-> [t |-> "invalid"]]

\* json.dumps takes the value: no numpy array anywhere in it
RECURSIVE Serialisable(_)
Serialisable(v) ==
  CASE v.t = "dict" -> \A k \in DOMAIN v.items : Serialisable(v.items[k])
    [] v.t \in {"list", "tuple"} ->
         \A i \in DOMAIN v.elems : Serialisable(v.elems[i])
    [] v.t = "ndarray" -> FALSE
    [] OTHER -> TRUE

\* the JSON value the encoder writes for a Python value: a tuple is written
\* as an array, like a list
RECURSIVE Encode(_)
Encode(v) ==
  CASE v.t = "dict" ->
         JsonObject([k \in DOMAIN v.items |-> Encode(v.items[k])])
    [] v.t \in {"list", "tuple"} ->
         JsonArray([i \in DOMAIN v.elems |-> Encode(v.elems[i])])
    [] v.t = "num" -> JsonNumber(v.n)
    [] v.t = "str" -> JsonString(v.s)
    [] OTHER -> JsonNull

\* the Python value the decoder builds for a JSON value: an array always
\* becomes a list
RECURSIVE Decode(_)
Decode(j) ==
  CASE j.t = "object" ->
         PyDict([k \in DOMAIN j.members |-> Decode(j.members[k])])
    [] j.t = "array" ->
         PyList([i \in DOMAIN j.entries |-> Decode(j.entries[i])])
    [] j.t = "number" -> PyNum(j.n)
    [] j.t = "string" -> PyStr(j.s)
    [] OTHER -> NoneValue

\* json.dumps(v) for a value it takes
JsonDumps(v) == JsonText(Encode(v))

\* json.loads raises on this text
LoadsRaises(text) == text.json.t = "invalid"

\* json.loads(text) for a text it takes
JsonLoadsText(text) == Decode(text.json)

\* the store: ec.put(key, val) and the value ec.get(key) returns, None for a
\* key that was never written
Put(m, key, val) ==
  [k \in DOMAIN m \cup {key} |-> IF k = key THEN val ELSE m[k]]

Get(m, key) == IF key \in DOMAIN m THEN m[key] ELSE NoneValue

\* the store operations of the client
PutOp(key, val) == [op |-> "put", key |-> key, val |-> val]

GetOp(key) == [op |-> "get", key |-> key, val |-> NoneValue]

\* the blocks the calls address
Targets ==
  { [host |-> <<"h">>, pipeline |-> 0, block |-> <<"b">>, inst_id |-> i] :
      i \in InstIds }

\* the block among them that publishes a status; the other never has
Publishers == {a \in Targets : a.inst_id = 0}

\* the keyword arguments of send_command: none, a number, a tuple, a numpy
\* array
Params ==
  { EmptyDict,
    PyDict([k \in {"a"} |-> PyNum(1)]),
    PyDict([k \in {"a"} |-> PyTuple(<< PyNum(1), PyNum(2) >>)]),
    PyDict([k \in {"a"} |-> PyNdarray]) }

\* the status documents a block publishes: with a "stats" subtree, with an
\* empty one, without one
WithStats ==
  PyDict([k \in {"stats", "pid"} |->
            IF k = "stats" THEN PyDict([m \in {"good"} |-> PyNum(1)])
            ELSE PyNum(7)])

WithEmptyStats == PyDict([k \in {"stats"} |-> EmptyDict])

WithoutStats == PyDict([k \in {"pid"} |-> PyNum(7)])

StatusDocuments == {WithStats, WithEmptyStats, WithoutStats}

\* what can be at a status key: a document, a JSON text that holds no object,
\* a text that is no JSON
StatusTexts ==
  {JsonDumps(d) : d \in StatusDocuments}
    \cup {JsonDumps(PyList(<< PyNum(1) >>)), Garbage}

\* the outcome of a call
Returned(v) == [t |-> "returned", v |-> v]

Raised(exc) == [t |-> "raised", exc |-> exc]

\* a call, as the history keeps it
CallRecord(name, a, arg, user_only, opsBefore, out) ==
  [name |-> name, a |-> a, arg |-> arg, user_only |-> user_only,
   opsBefore |-> opsBefore, out |-> out]

\* Mutant: the command is written under the monitor root
CommandKey_Mon(a) == _get_mon_key(a)

\* line 155: the key send_command writes
CommandKey(a) == _get_cmd_key(a)

\* lines 155-157, for keyword arguments json.dumps takes and a store that
\* takes the put
send_command(a, kw) ==
  /\ Len(calls) < MaxCalls
  /\ Serialisable(kw)
  /\ kv' = Put(kv, CommandKey(a), JsonDumps(kw))
  /\ ops' = Append(ops, PutOp(CommandKey(a), JsonDumps(kw)))
  /\ calls' = Append(calls,
       CallRecord("send_command", a, kw, FALSE, Len(ops),
                  Returned(NoneValue)))
  /\ UNCHANGED clog
  /\ UNCHANGED notStoreVars

\* line 156 raises: json.dumps does not take the keyword arguments
SendCommandEncodeFails(a, kw) ==
  /\ Len(calls) < MaxCalls
  /\ ~Serialisable(kw)
  /\ calls' = Append(calls,
       CallRecord("send_command", a, kw, FALSE, Len(ops),
                  Raised("TypeError")))
  /\ UNCHANGED << kv, ops, clog >>
  /\ UNCHANGED notStoreVars

\* line 157 raises: the store does not take the put
SendCommandPutFails(a, kw) ==
  /\ Len(calls) < MaxCalls
  /\ Serialisable(kw)
  /\ ops' = Append(ops, PutOp(CommandKey(a), JsonDumps(kw)))
  /\ calls' = Append(calls,
       CallRecord("send_command", a, kw, FALSE, Len(ops),
                  Raised("StoreError")))
  /\ UNCHANGED << kv, clog >>
  /\ UNCHANGED notStoreVars

\* line 298: val is None
Absent(val) == val = NoneValue

\* Mutant: no data is returned as an empty document
OnNoData_Empty(val) == Returned(EmptyDict)

\* line 300: return val, which is None
OnNoData(val) == Returned(val)

\* Mutant: the whole document whatever user_only is
Narrow_Never(doc, user_only) == doc

\* lines 302-305, for a decoded document that is a dict:
\* val.get("stats", {}) or val
Narrow(doc, user_only) ==
  IF user_only
  THEN IF "stats" \in DOMAIN doc.items THEN doc.items["stats"] ELSE EmptyDict
  ELSE doc

\* what get_status returns or raises for the value read at its key
StatusOutcome(val, user_only) ==
  IF Absent(val) THEN OnNoData(val)
  ELSE IF LoadsRaises(val) THEN Raised("JSONDecodeError")
  ELSE IF user_only /\ JsonLoadsText(val).t # "dict"
       THEN Raised("AttributeError")
  ELSE Returned(Narrow(JsonLoadsText(val), user_only))

\* the warning of line 299
NoDataWarning(n, key) == [call |-> n, level |-> "warning", key |-> key]

\* lines 296-305
get_status(a, user_only) ==
  LET key == _get_mon_key(a)
      val == Get(kv, key)
  IN /\ Len(calls) < MaxCalls
     /\ ops' = Append(ops, GetOp(key))
     /\ calls' = Append(calls,
          CallRecord("get_status", a, val, user_only, Len(ops),
                     StatusOutcome(val, user_only)))
     /\ clog' = IF Absent(val)
                THEN clog \cup {NoDataWarning(Len(calls) + 1, key)}
                ELSE clog
     /\ UNCHANGED kv
     /\ UNCHANGED notStoreVars

\* a block publishes its status at its status key
StatusPut(a, text) ==
  /\ Get(kv, _get_mon_key(a)) # text
  /\ kv' = Put(kv, _get_mon_key(a), text)
  /\ UNCHANGED << ops, calls, clog >>
  /\ UNCHANGED notStoreVars

NextStore ==
  \/ \E a \in Targets, kw \in Params :
       \/ send_command(a, kw)
       \/ SendCommandEncodeFails(a, kw)
       \/ SendCommandPutFails(a, kw)
  \/ \E a \in Targets, user_only \in BOOLEAN : get_status(a, user_only)
  \/ \E a \in Publishers, text \in StatusTexts : StatusPut(a, text)

SpecStore == Init /\ [][NextStore]_vars

SpecKeys == Init /\ [][NextKeys]_vars

\* =========================== part 3b: CorrSubsel.set_baseline_select
\* The control side of the baseline selection (corr_subsel_control.py).
\* The arguments: lists of integers, of pairs, of pairs of pairs, of nvis_out
\* entries or one fewer or one more, and a list whose entries differ in
\* length
PairAt(x) == PyList(<< PyNum(x), PyNum(x + 1) >>)

PairOfPairsAt(x) == PyList(<< PairAt(x), PairAt(x + 2) >>)

FlatOf(n, x) == PyList([i \in 1..n |-> PyNum(x + i)])

PairsOf(n, x) == PyList([i \in 1..n |-> PairAt(x + i)])

PairsOfPairsOf(n, x) == PyList([i \in 1..n |-> PairOfPairsAt(x + i)])

RaggedOf(n, x) ==
  PyList([i \in 1..n |-> IF i = 1 THEN PairAt(x) ELSE PyList(<< PyNum(x) >>)])

SelectArgs ==
  UNION { { FlatOf(nvis_out, x), PairsOf(nvis_out, x),
            PairsOfPairsOf(nvis_out, x), PairsOf(nvis_out - 1, x),
            PairsOfPairsOf(nvis_out + 1, x), RaggedOf(nvis_out, x) } :
          x \in {0, 10} }

\* the shape of np.array(v, dtype=np.int32), or no array: the entries of a
\* list differ in shape and numpy raises ValueError
NoShape == [ok |-> FALSE, dims |-> <<>>]

RECURSIVE Shape(_)
Shape(v) ==
  IF v.t = "num" THEN [ok |-> TRUE, dims |-> <<>>]
  ELSE IF Len(v.elems) = 0 THEN [ok |-> TRUE, dims |-> << 0 >>]
  ELSE LET first == Shape(v.elems[1])
       IN IF first.ok /\ \A i \in DOMAIN v.elems : Shape(v.elems[i]) = first
          THEN [ok |-> TRUE, dims |-> << Len(v.elems) >> \o first.dims]
          ELSE NoShape

\* line 8: subsel.shape == (self.nvis_out, 2, 2)
ShapeAsserted(dims) == dims = << nvis_out, 2, 2 >>

\* the block a CorrSubsel control object commands
CorrSubselBlock ==
  [host |-> <<"h">>, pipeline |-> 0, block |-> <<"b">>, inst_id |-> 1]

\* BlockControl.send_command(subsel = list): the keyword arguments are
\* written to the command key of the block
BlockSendCommand(kw) ==
  /\ kv' = Put(kv, _get_cmd_key(CorrSubselBlock), JsonDumps(kw))
  /\ ops' = Append(ops, PutOp(_get_cmd_key(CorrSubselBlock), JsonDumps(kw)))

\* the keyword arguments of line 9
SubselKwargs(v) == PyDict([k \in {"subsel"} |-> v])

\* how the call ends
SelectOutcome(v) ==
  IF ~Shape(v).ok THEN Raised("ValueError")
  ELSE IF ~ShapeAsserted(Shape(v).dims) THEN Raised("AssertionError")
  ELSE Returned(NoneValue)

\* lines 6-9
set_baseline_select(v) ==
  /\ Len(calls) < MaxCalls
  /\ calls' = Append(calls,
       CallRecord("set_baseline_select", CorrSubselBlock, v, FALSE, Len(ops),
                  SelectOutcome(v)))
  /\ IF SelectOutcome(v) = Returned(NoneValue)
     THEN BlockSendCommand(SubselKwargs(v))
     ELSE UNCHANGED << kv, ops >>
  /\ UNCHANGED clog
  /\ UNCHANGED notStoreVars

NextSelect == \E v \in SelectArgs : set_baseline_select(v)

SpecSelect == Init /\ [][NextSelect]_vars

\* ================================================== part 4: DummySource
\* DummySource.main (dummy_source_block.py): the header of the one output
\* sequence and the loop that writes spans.
\* the spans written, at most
MaxGulps == 2

\* line 226: the factor of system_nchan
SystemChannelFactor == 32

\* line 228: 24e3
ChannelWidthHz == 24000

\* line 229
AdcRateHz == 196608000

\* lines 166-169: entry i is [i // npol, i % npol]
input_to_ant(nstand, npol) ==
  [i \in 1..(nstand * npol) |-> << (i - 1) \div npol, (i - 1) % npol >>]

\* lines 171-175: entry [s, p] is the input whose entry is [s, p]
ant_to_input(nstand, npol) ==
  [st \in 1..nstand |->
     [p \in 1..npol |->
        (CHOOSE i \in 1..(nstand * npol) :
           input_to_ant(nstand, npol)[i] = << st - 1, p - 1 >>) - 1]]

\* lines 223-236: hdr, the keys of header_base first and the block's own
\* keys written over them; t is int(time.time())
OwnKeys(d, t) ==
  [k \in {"nchan", "system_nchan", "chan0", "bw_hz", "fs_hz", "sfreq",
          "nstand", "npol", "seq0", "input_to_ant", "ant_to_input",
          "sync_time"} |->
     CASE k = "nchan" -> d.nchan
       [] k = "system_nchan" -> SystemChannelFactor * d.nchan
       [] k = "chan0" -> 0
       [] k = "bw_hz" -> ChannelWidthHz * d.nchan
       [] k = "fs_hz" -> AdcRateHz
       [] k = "sfreq" -> 0
       [] k = "nstand" -> d.nstand
       [] k = "npol" -> d.npol
       [] k = "seq0" -> 0
       [] k = "input_to_ant" -> input_to_ant(d.nstand, d.npol)
       [] k = "ant_to_input" -> ant_to_input(d.nstand, d.npol)
       [] OTHER -> t]

BuildHeader(d, t) ==
  [k \in DOMAIN d.header_base \cup DOMAIN OwnKeys(d, t) |->
     IF k \in DOMAIN OwnKeys(d, t) THEN OwnKeys(d, t)[k] ELSE d.header_base[k]]

\* lines 216-247: main() up to begin_sequence, which writes the header
BeginSequence(t) ==
  /\ dpc = "init"
  /\ hdr' = BuildHeader(dsrc, t)
  /\ dpc' = "loop"
  /\ UNCHANGED << dsrc, time_tag >>
  /\ UNCHANGED notSourceVars

\* lines 248-258: one span reserved and committed
WriteSpan ==
  /\ dpc = "loop"
  /\ time_tag < MaxGulps
  /\ time_tag' = time_tag + 1
  /\ UNCHANGED << dsrc, hdr, dpc >>
  /\ UNCHANGED notSourceVars

\* lines 196-197, 248: shutdown() was called and the loop sees the event
Shutdown ==
  /\ dpc = "loop"
  /\ dpc' = "done"
  /\ UNCHANGED << dsrc, hdr, time_tag >>
  /\ UNCHANGED notSourceVars

\* the arguments: channels, stands, polarisations, and a header that is
\* empty, or has a key of its own, or has system_nchan
HeaderBases ==
  { [k \in {} |-> k], [k \in {"telescope"} |-> 1], [k \in {"system_nchan"} |-> 7] }

InitSource ==
  /\ InitOn([c \in Calls |-> "A"])
  /\ InitBeamformControl
  /\ InitCorrSubSel(Range(nvis_out))
  /\ InitKeys
  /\ InitStore
  /\ InitBeamform
  /\ InitCallers
  /\ \E nchan \in {1, 2, 192}, nstand \in 1..2, npol \in 1..2,
        header \in HeaderBases :
       InitDummySourceWith(nchan, nstand, npol, header)

NextSource ==
  \/ \E t \in {0, 1700000000} : BeginSequence(t)
  \/ WriteSpan
  \/ Shutdown

SpecSource == InitSource /\ [][NextSource]_vars

\* ================================================= part 2: BeamformControl
\* Mutant: int() rounds up to the next whole second
PyInt_Ceil(t) == (t + MsPerSecond - 1) \div MsPerSecond

\* Mutant: int() rounds to the nearest whole second
PyInt_Round(t) == (t + MsPerSecond \div 2) \div MsPerSecond

\* int(t) of a time t in milliseconds, in seconds: int() truncates towards
\* zero
PyInt(t) == IF t >= 0 THEN t \div MsPerSecond ELSE -((-t) \div MsPerSecond)

\* Mutant: the offset is taken off
SlotOffset_Negated(s) == -((s * MsPerSecond) \div SlotsPerSecond)

\* slot/100.0 seconds, in milliseconds
SlotOffset(s) == (s * MsPerSecond) \div SlotsPerSecond

\* the "+ 1" of line 13
LeadSeconds == 1

\* Mutant: no second is added
_get_when_to_execute_NoLead(t, s) == PyInt(t) * MsPerSecond + SlotOffset(s)

\* line 13: int(time.time()) + 1 + slot/100.0, in milliseconds, with t the
\* value time.time() returns
_get_when_to_execute(t, s) ==
  (PyInt(t) + LeadSeconds) * MsPerSecond + SlotOffset(s)

\* time.time() advances; the clock is followed until the update call reads it
WallTick ==
  /\ coeffs = NoDict
  /\ wall < MaxWall
  /\ wall' = wall + 1
  /\ UNCHANGED << coeffs, slot, computedAt, update >>
  /\ UNCHANGED notWhenVars

\* The numbers of the arrays are counted in halves of the spacing of the
\* float32 values around them: a float32 is an even count, a float64 between
\* two float32 values an odd one.
Float32Step == 2

\* lines 36-38: a value stored into the float32 array gains_real is rounded
\* to the nearest float32, a tie to the one with the even mantissa
Float32(v) ==
  IF v % Float32Step = 0 THEN v
  ELSE IF (v \div Float32Step) % 2 = 0 THEN Float32Step * (v \div Float32Step)
  ELSE Float32Step * ((v \div Float32Step) + 1)

\* a complex number
Complex(re, im) == [re |-> re, im |-> im]

\* Mutant: the imaginary parts come first
gains_real_ImagFirst(gains) ==
  [k \in 1..(2 * Len(gains)) |->
     IF k % 2 = 1 THEN Float32(gains[(k + 1) \div 2].im)
     ELSE Float32(gains[k \div 2].re)]

\* Mutant: the real part is written to both entries
gains_real_RealTwice(gains) ==
  [k \in 1..(2 * Len(gains)) |->
     IF k % 2 = 1 THEN Float32(gains[(k + 1) \div 2].re)
     ELSE Float32(gains[k \div 2].re)]

\* lines 35-38: the float32 array of 2*nchan entries, gains_real[0::2] the
\* real parts and gains_real[1::2] the imaginary parts (entry k of the
\* sequence is index k-1 of the array)
gains_real(gains) ==
  [k \in 1..(2 * Len(gains)) |->
     IF k % 2 = 1 THEN Float32(gains[(k + 1) \div 2].re)
     ELSE Float32(gains[k \div 2].im)]

\* Mutant: the list holds the float32 roundings
tolist_Float32(arr) == PyList([k \in DOMAIN arr |-> PyNum(Float32(arr[k]))])

\* arr.tolist(): the list of the Python floats of a real array
tolist(arr) == PyList([k \in DOMAIN arr |-> PyNum(arr[k])])

\* lines 40-45, 63-68, 86-91: the dict passed as coeffs
CoeffsDict(type, idkey, id, data, when) ==
  PyDict([k \in {"type", idkey, "data", "when"} |->
            CASE k = "type" -> PyStr(type)
              [] k = "data" -> data
              [] k = "when" -> PyNum(when)
              [] OTHER -> PyNum(id)])

\* the block a BeamformControl object commands
BeamformBlock ==
  [host |-> <<"h">>, pipeline |-> 0, block |-> <<"b">>, inst_id |-> 0]

\* BlockControl._send_command(coeffs = message): the coefficient update is
\* written to the command key of the block
_send_command(message) ==
  /\ kv' = Put(kv, _get_cmd_key(BeamformBlock), JsonDumps(message))
  /\ ops' = Append(ops, PutOp(_get_cmd_key(BeamformBlock), JsonDumps(message)))

\* the update call up to its _send_command
UpdateCoeffs(name, type, idkey, id, arr, data, s) ==
  /\ coeffs = NoDict
  /\ coeffs' = [type |-> type, data |-> data,
                when |-> _get_when_to_execute(wall, s)]
  /\ slot' = s
  /\ computedAt' = wall
  /\ update' = [name |-> name, id |-> id, array |-> arr]
  /\ _send_command(
       CoeffsDict(type, idkey, id, data, _get_when_to_execute(wall, s)))
  /\ UNCHANGED wall
  /\ UNCHANGED notUpdateVars

\* lines 35-46
update_calibration_gains(input_id, gains, s) ==
  UpdateCoeffs("update_calibration_gains", "calibration", "input_id",
               input_id, gains, tolist(gains_real(gains)), s)

\* lines 62-69
update_gains(beam_id, gains, s) ==
  UpdateCoeffs("update_gains", "gains", "beam_id", beam_id, gains,
               tolist(gains), s)

\* lines 85-92
update_delays(beam_id, delays, s) ==
  UpdateCoeffs("update_delays", "delays", "beam_id", beam_id, delays,
               tolist(delays), s)

\* one array of each kind for the calls whose time is followed
OneGain == << Complex(2, 0) >>

OneReal == << 1 >>

NextBeamformControl ==
  \/ WallTick
  \/ \E s \in Slots :
       \/ update_calibration_gains(0, OneGain, s)
       \/ update_gains(0, OneReal, s)
       \/ update_delays(0, OneReal, s)

SpecBeamformControl == Init /\ [][NextBeamformControl]_vars

\* The messages: the ids, the arrays of up to MaxChan entries over four
\* values, two of them float32 values, and three readings of the clock
Ids == {0, 3}

GainValues == 0..3

RECURSIVE ArraysOf(_, _)
ArraysOf(S, n) ==
  IF n = 0 THEN {<<>>}
  ELSE ArraysOf(S, n - 1)
         \cup {Append(a, x) : a \in {b \in ArraysOf(S, n - 1) : Len(b) = n - 1},
                              x \in S}

ComplexValues == {Complex(re, im) : re \in GainValues, im \in GainValues}

ComplexArrays == ArraysOf(ComplexValues, MaxChan)

RealArrays == ArraysOf(GainValues, MaxChan)

SendTimes == {0, 999, 1500}

SendSlots == {0, 50, 99}

InitCoeffs ==
  /\ InitOn([c \in Calls |-> "A"])
  /\ \E t \in SendTimes : InitBeamformControlAt(t)
  /\ InitCorrSubSel(Range(nvis_out))
  /\ InitKeys
  /\ InitStore
  /\ InitBeamform
  /\ InitCallers
  /\ InitDummySource

NextCoeffs ==
  \E id \in Ids, s \in SendSlots :
    \/ \E gains \in ComplexArrays : update_calibration_gains(id, gains, s)
    \/ \E gains \in RealArrays : update_gains(id, gains, s)
    \/ \E delays \in RealArrays : update_delays(id, delays, s)

SpecCoeffs == InitCoeffs /\ [][NextCoeffs]_vars

\* ------------------------------- part 2b: two callers, synchronized clocks
\* the readings of the one clock at which the calls are made, around the
\* ends of two whole seconds
CallTimes == {0, 1, 999, 1000, 1001, 1400, 1600, 1999, 2000}

\* time passes between two calls
WallAdvance ==
  /\ \E t \in CallTimes : t > wall /\ wall' = t
  /\ UNCHANGED << coeffs, slot, computedAt, update >>
  /\ UNCHANGED notWhenVars

\* node n calls BeamformControl._get_when_to_execute(s), line 13
GetWhenToExecute(n, s) ==
  /\ n \notin called
  /\ called' = called \cup {n}
  /\ calledAt' = [calledAt EXCEPT ![n] = wall]
  /\ calledSlot' = [calledSlot EXCEPT ![n] = s]
  /\ stamp' = [stamp EXCEPT ![n] = _get_when_to_execute(wall, s)]
  /\ UNCHANGED notCallerVars

InitTwoCallers ==
  /\ InitOn([c \in Calls |-> "A"])
  /\ \E t \in CallTimes : InitBeamformControlAt(t)
  /\ InitCorrSubSel(Range(nvis_out))
  /\ InitKeys
  /\ InitStore
  /\ InitBeamform
  /\ InitCallers
  /\ InitDummySource

NextTwoCallers ==
  \/ WallAdvance
  \/ \E n \in Nodes, s \in Slots : GetWhenToExecute(n, s)

SpecTwoCallers == InitTwoCallers /\ [][NextTwoCallers]_vars

\* ======================================================= part 5: Beamform
\* Beamform.updateConfig and the loop of Beamform.main that calls it
\* (test-scripts/blocks/beamform_block.py).  Time tags are counted in
\* milliseconds, so that the sampling rate FS is MsPerSecond ticks a second.
\* gulps read in all, and updateConfig calls that are given a configuration
MaxBeamGulps == 2
MaxPassed == 2

\* line 17, in the unit of the time tags
FS == MsPerSecond

\* lines 201 and 249: ntime_gulp*ticksPerTime, 2500 * (200e6 / 25e3) ticks
\* of 5 ns, a tenth of a second
GulpTicks == 100

\* line 81: pipeline_time = time_tag / FS, in milliseconds
PipelineTime(tag) == (tag * MsPerSecond) \div FS

\* lines 91-92: config_time = int(time.time()) + 1 + config[4]/100.0, in
\* milliseconds, with t the value time.time() returns
ConfigTime(t, config) ==
  (PyInt(t) + LeadSeconds) * MsPerSecond + SlotOffset(config.slot)

\* line 72: configMessage() returns None
NoConfig == [kind |-> "None"]

configMessage == NoConfig

\* the configurations (beam, delays, gains, tuning, slot) a caller passes:
\* for beam 1 of tuning 0, the tuning of the block, with two sets of
\* coefficients and two slots
Configs ==
  { [kind |-> "config", beam |-> 1, coeffs |-> k, tuning |-> 0, slot |-> sl] :
      k \in {1, 2}, sl \in {0, 50} }

\* the time tags of the input sequence
SequenceTags == {900, 1900, 3000}

\* updateConfig(config, hdr, time_tag, forceUpdate), lines 75-76: the first
\* statement is "return True", so the call returns True with _pending and
\* cgains as they were; lines 77-172 are never reached
updateConfig(config, tag, forceUpdate) ==
  /\ status' = "True"
  /\ UNCHANGED << _pending, cgains >>
  /\ passed' = IF config = NoConfig THEN passed
               ELSE Append(passed,
                           [config |-> config,
                            pipeline_time |-> PipelineTime(tag),
                            config_time |-> ConfigTime(wall, config),
                            forceUpdate |-> forceUpdate])

\* main(), lines 185-202: a sequence begins; updateConfig is called with
\* what configMessage() returns and forceUpdate=True
BeamSequence(tag) ==
  /\ bfpc = "sequence"
  /\ updateConfig(configMessage, tag, TRUE)
  /\ base_time_tag' = tag
  /\ bfpc' = "gulp"
  /\ UNCHANGED ngulps
  /\ UNCHANGED notBeamVars

\* main(), lines 214-252: a gulp is beamformed, base_time_tag advances and
\* updateConfig is called with what configMessage() returns
BeamGulp ==
  /\ bfpc = "gulp"
  /\ ngulps < MaxBeamGulps
  /\ ngulps' = ngulps + 1
  /\ base_time_tag' = base_time_tag + GulpTicks
  /\ updateConfig(configMessage, base_time_tag + GulpTicks, FALSE)
  /\ UNCHANGED bfpc
  /\ UNCHANGED notBeamVars

\* main(), line 185: the input ring ends
BeamEnd ==
  /\ bfpc = "gulp"
  /\ bfpc' = "ended"
  /\ UNCHANGED << _pending, cgains, base_time_tag, status, passed, ngulps >>
  /\ UNCHANGED notBeamVars

\* updateConfig called with a configuration, at the time tag the loop has
\* reached
PassConfig(config, forceUpdate) ==
  /\ bfpc = "gulp"
  /\ Len(passed) < MaxPassed
  /\ updateConfig(config, base_time_tag, forceUpdate)
  /\ UNCHANGED << base_time_tag, bfpc, ngulps >>
  /\ UNCHANGED notBeamVars

NextBeamform ==
  \/ WallAdvance
  \/ \E tag \in SequenceTags : BeamSequence(tag)
  \/ BeamGulp
  \/ BeamEnd
  \/ \E config \in Configs, forceUpdate \in BOOLEAN :
       PassConfig(config, forceUpdate)

\* the block as constructed, at any of the clock readings
SpecBeamform == InitTwoCallers /\ [][NextBeamform]_vars

\* ====================================================== part 3: CorrSubSel
\* The arguments of the update calls: two arrays of the right length, one
\* too short, one too long, one of the right length whose entries are
\* pairs (the [[int, int], ...] of the documented wire format)
ListA == FlatList([i \in 1..nvis_out |-> 10 + i])
ListB == FlatList([i \in 1..nvis_out |-> 20 + i])
TooShort == FlatList([i \in 1..(nvis_out - 1) |-> 10 + i])
TooLong == FlatList([i \in 1..(nvis_out + 1) |-> 10 + i])
Pairs == NestedList(nvis_out)
UpdateArgs == {ListA, ListB, TooShort, TooLong, Pairs}
EventValues == UpdateArgs \cup {NotAList, NotJson}

\* Mutant: every length is taken
LengthOk_Any(v) == TRUE

\* line 71: len(subsel) != self.nvis_out is false
LengthOk(v) == v.items = nvis_out

\* Mutant: the lock does not exclude
LockFree_Always(holder) == TRUE

\* Lock.acquire() returns only when nobody holds the lock
LockFree(holder) == holder = NoHolder

\* Mutant: the update stores into both arrays
StoreEntry_Both(live, next, k, x) ==
  << [live EXCEPT ![k] = x], [next EXCEPT ![k] = x] >>

\* Mutant: the update stores into the live array
StoreEntry_Live(live, next, k, x) == << [live EXCEPT ![k] = x], next >>

\* line 76, one entry: the pair (_subsel, _subsel_next) after storing x at
\* index k
StoreEntry(live, next, k, x) == << live, [next EXCEPT ![k] = x] >>

\* Mutant: nothing is copied
CopyArray_Nothing(dst, src) == dst

\* line 103, self._subsel[...] = self._subsel_next: the new content of dst
CopyArray(dst, src) == src

\* line 105
ClearPending(p) == FALSE

\* Mutant: the flag is not set
SetPending_Forgotten(p) == p

\* line 77
SetPending(p) == TRUE

\* lines 67-73, in the calling thread: the length test and, on a wrong
\* length, the error line and the return
UpdateEnter(u, v) ==
  /\ upc[u] = "idle"
  /\ nupdates < MaxUpdates
  /\ nupdates' = nupdates + 1
  /\ IF LengthOk(v)
        THEN /\ upc' = [upc EXCEPT ![u] = "acquire"]
             /\ subsel' = [subsel EXCEPT ![u] = v]
             /\ accepted' = IF v.flat THEN accepted \cup {v.data} ELSE accepted
             /\ blog' = {}
        ELSE /\ blog' = {<<u, "Tried to update baseline subselection with an array of length", v.items>>}
             /\ UNCHANGED << upc, subsel, accepted >>
  /\ UNCHANGED << _subsel, _subsel_next, _subsel_pending, _subsel_lock, mpc,
                  written, nspans, assigned >>
  /\ UNCHANGED notSubselVars

\* update_subsel called directly
UpdateSubsel(u, v) ==
  /\ v.kind = "list"
  /\ UpdateEnter(u, v)

\* _etcd_update_subsel, lines 60-65: events[0].value decoded; a list goes
\* to update_subsel, anything else is logged; a value that is no JSON
\* raises out of the callback
EtcdUpdateSubsel(u, v) ==
  IF v.kind = "list"
    THEN UpdateEnter(u, v)
    ELSE /\ upc[u] = "idle"
         /\ nupdates < MaxUpdates
         /\ nupdates' = nupdates + 1
         /\ IF v.kind = "nonlist"
               THEN /\ blog' = {<<u, "Tried to update subselection with a non-list">>}
                    /\ UNCHANGED upc
               ELSE /\ blog' = {}
                    /\ upc' = [upc EXCEPT ![u] = "raised"]
         /\ UNCHANGED << _subsel, _subsel_next, _subsel_pending, _subsel_lock,
                         mpc, subsel, written, nspans, assigned, accepted >>
         /\ UNCHANGED notSubselVars

\* line 75
UpdAcquire(u) ==
  /\ upc[u] = "acquire"
  /\ LockFree(_subsel_lock)
  /\ _subsel_lock' = u
  /\ upc' = [upc EXCEPT ![u] = "store"]
  /\ blog' = {}
  /\ UNCHANGED << _subsel, _subsel_next, _subsel_pending, mpc, subsel,
                  written, nupdates, nspans, assigned, accepted >>
  /\ UNCHANGED notSubselVars

\* line 76, self._subsel_next[...] = subsel: the entries are stored one
\* after the other
UpdStore(u) ==
  /\ upc[u] = "store"
  /\ subsel[u].flat
  /\ LET k == written[u] + 1
         after == StoreEntry(_subsel, _subsel_next, k, subsel[u].data[k])
     IN /\ _subsel' = after[1]
        /\ _subsel_next' = after[2]
        /\ IF k = nvis_out
              THEN /\ written' = [written EXCEPT ![u] = 0]
                   /\ upc' = [upc EXCEPT ![u] = "set_pending"]
              ELSE /\ written' = [written EXCEPT ![u] = k]
                   /\ UNCHANGED upc
  /\ blog' = {}
  /\ UNCHANGED << _subsel_pending, _subsel_lock, mpc, subsel, nupdates,
                  nspans, assigned, accepted >>
  /\ UNCHANGED notSubselVars

\* line 76 with entries that are no integers: the assignment raises before
\* it stores anything, and the exception leaves update_subsel past its
\* release()
UpdStoreRaises(u) ==
  /\ upc[u] = "store"
  /\ ~subsel[u].flat
  /\ upc' = [upc EXCEPT ![u] = "raised"]
  /\ subsel' = [subsel EXCEPT ![u] = NoArg]
  /\ blog' = {}
  /\ UNCHANGED << _subsel, _subsel_next, _subsel_pending, _subsel_lock, mpc,
                  written, nupdates, nspans, assigned, accepted >>
  /\ UNCHANGED notSubselVars

\* line 77
UpdSetPending(u) ==
  /\ upc[u] = "set_pending"
  /\ _subsel_pending' = SetPending(_subsel_pending)
  /\ upc' = [upc EXCEPT ![u] = "release"]
  /\ blog' = {}
  /\ UNCHANGED << _subsel, _subsel_next, _subsel_lock, mpc, subsel, written,
                  nupdates, nspans, assigned, accepted >>
  /\ UNCHANGED notSubselVars

\* line 78, and the return
UpdRelease(u) ==
  /\ upc[u] = "release"
  /\ _subsel_lock' = NoHolder
  /\ upc' = [upc EXCEPT ![u] = "idle"]
  /\ subsel' = [subsel EXCEPT ![u] = NoArg]
  /\ blog' = {}
  /\ UNCHANGED << _subsel, _subsel_next, _subsel_pending, mpc, written,
                  nupdates, nspans, assigned, accepted >>
  /\ UNCHANGED notSubselVars

\* what a step of main() leaves alone
mainFrame == << upc, subsel, written, nupdates, accepted >>

\* lines 94-99: the input ring delivers a span
MainSpan ==
  /\ mpc = "next_span"
  /\ nspans < MaxSpans
  /\ nspans' = nspans + 1
  /\ mpc' = "acquire"
  /\ blog' = {}
  /\ UNCHANGED << _subsel, _subsel_next, _subsel_pending, _subsel_lock,
                  assigned >>
  /\ UNCHANGED mainFrame
  /\ UNCHANGED notSubselVars

\* line 100
MainAcquire ==
  /\ mpc = "acquire"
  /\ LockFree(_subsel_lock)
  /\ _subsel_lock' = Main
  /\ mpc' = "check"
  /\ blog' = {}
  /\ UNCHANGED << _subsel, _subsel_next, _subsel_pending, nspans, assigned >>
  /\ UNCHANGED mainFrame
  /\ UNCHANGED notSubselVars

\* lines 101-104: a pending update is copied into the live array
MainCopy ==
  /\ mpc = "check"
  /\ IF _subsel_pending
        THEN /\ _subsel' = CopyArray(_subsel, _subsel_next)
             /\ assigned' = TRUE
             /\ blog' = {<<Main, "Updating baseline subselection indices">>}
        ELSE /\ blog' = {}
             /\ UNCHANGED << _subsel, assigned >>
  /\ mpc' = "clear"
  /\ UNCHANGED << _subsel_next, _subsel_pending, _subsel_lock, nspans >>
  /\ UNCHANGED mainFrame
  /\ UNCHANGED notSubselVars

\* line 105
MainClear ==
  /\ mpc = "clear"
  /\ _subsel_pending' = ClearPending(_subsel_pending)
  /\ mpc' = "release"
  /\ blog' = {}
  /\ UNCHANGED << _subsel, _subsel_next, _subsel_lock, nspans, assigned >>
  /\ UNCHANGED mainFrame
  /\ UNCHANGED notSubselVars

\* line 106
MainRelease ==
  /\ mpc = "release"
  /\ _subsel_lock' = NoHolder
  /\ mpc' = "process"
  /\ blog' = {}
  /\ UNCHANGED << _subsel, _subsel_next, _subsel_pending, nspans, assigned >>
  /\ UNCHANGED mainFrame
  /\ UNCHANGED notSubselVars

\* lines 107-126: the span is subselected with self._subsel and copied
\* out; bfXgpuSubSelect succeeds
MainProcess ==
  /\ mpc = "process"
  /\ mpc' = "next_span"
  /\ blog' = {}
  /\ UNCHANGED << _subsel, _subsel_next, _subsel_pending, _subsel_lock,
                  nspans, assigned >>
  /\ UNCHANGED mainFrame
  /\ UNCHANGED notSubselVars

\* lines 113-116: bfXgpuSubSelect fails and main() raises RuntimeError
MainProcessFails ==
  /\ mpc = "process"
  /\ mpc' = "raised"
  /\ blog' = {<<Main, "xgpuIntialize returned">>}
  /\ UNCHANGED << _subsel, _subsel_next, _subsel_pending, _subsel_lock,
                  nspans, assigned >>
  /\ UNCHANGED mainFrame
  /\ UNCHANGED notSubselVars

UpdaterStep(u) ==
  \/ \E v \in UpdateArgs : UpdateSubsel(u, v)
  \/ \E v \in EventValues : EtcdUpdateSubsel(u, v)
  \/ UpdAcquire(u)
  \/ UpdStore(u)
  \/ UpdStoreRaises(u)
  \/ UpdSetPending(u)
  \/ UpdRelease(u)

MainStep ==
  \/ MainSpan
  \/ MainAcquire
  \/ MainCopy
  \/ MainClear
  \/ MainRelease
  \/ MainProcess
  \/ MainProcessFails

\* The block as constructed, its live array holding whatever the
\* allocation left in it
InitBlock ==
  /\ InitOn([c \in Calls |-> "A"])
  /\ InitBeamformControl
  /\ \E garbage \in Unassigned : InitCorrSubSel(garbage)
  /\ InitKeys
  /\ InitStore
  /\ InitBeamform
  /\ InitCallers
  /\ InitDummySource

NextCorrSubSel ==
  \/ \E u \in Updaters : UpdaterStep(u)
  \/ MainStep

SpecCorrSubSel == InitBlock /\ [][NextCorrSubSel]_vars

\* lines 94-99 with an input ring that never runs out of spans; the count
\* of the spans read stops at MaxSpans
MainSpanOn ==
  /\ mpc = "next_span"
  /\ nspans' = IF nspans < MaxSpans THEN nspans + 1 ELSE nspans
  /\ mpc' = "acquire"
  /\ blog' = {}
  /\ UNCHANGED << _subsel, _subsel_next, _subsel_pending, _subsel_lock,
                  assigned >>
  /\ UNCHANGED mainFrame
  /\ UNCHANGED notSubselVars

\* main() while spans keep coming and bfXgpuSubSelect succeeds
MainStepOn ==
  \/ MainSpanOn
  \/ MainAcquire
  \/ MainCopy
  \/ MainClear
  \/ MainRelease
  \/ MainProcess

\* lines 76-78 of an updating thread, which holds the lock
UpdaterHoldsLock(u) ==
  \/ UpdStore(u)
  \/ UpdStoreRaises(u)
  \/ UpdSetPending(u)
  \/ UpdRelease(u)

NextCorrSubSelOn ==
  \/ \E u \in Updaters : UpdaterStep(u)
  \/ MainStepOn

\* Scheduling: every thread that can run does run; a thread waiting in
\* Lock.acquire() gets the lock if the lock is free again and again (the
\* loop holds it for lines 100-106 only and then works on the span)
FairCorrSubSel ==
  /\ WF_vars(MainStepOn)
  /\ \A u \in Updaters :
       /\ SF_vars(UpdAcquire(u))
       /\ WF_vars(UpdaterHoldsLock(u))

SpecCorrSubSelOn == InitBlock /\ [][NextCorrSubSelOn]_vars /\ FairCorrSubSel

\* ================================================================ claims
\* How a call ended
Finished(c) == pc[c] \in {"returned", "raised"}
EncodingFailed(c) == pc[c] = "returned" /\ kwargs[c] = "unserialisable"
GotResponse(c) == pc[c] = "returned" /\ retDict[c] # NoDict
TimedOutCall(c) == pc[c] = "returned" /\ ~EncodingFailed(c) /\ retDict[c] = NoDict
BothEntered == \A c \in Calls : pc[c] # "idle"
DistinctIds == BothEntered /\ sequence_id[1] # sequence_id[2]
Other(c) == 3 - c

\* C1: two calls on two client objects, with distinct ids and one response
\* key: whatever the order in which the responses reach the two callbacks,
\* a call that returns a response returns val.response of a response whose
\* id is its own request id; no call ends any other way than by the
\* encoding failure, the timeout or such a response.
C1_OwnResponseOnTwoClients ==
  DistinctIds =>
    \A c \in Calls :
      Finished(c) =>
        \/ EncodingFailed(c) /\ ret[c] = PyFalse
        \/ TimedOutCall(c) /\ ret[c] = PyNone
        \/ /\ GotResponse(c)
           /\ retDict[c].id = sequence_id[c]
           /\ ret[c] = retDict[c].response

\* Both calls have returned a response, each its own, after both responses
\* were put while both watches were registered
C1_Witness ==
  /\ objOf[1] # objOf[2]
  /\ DistinctIds
  /\ \A c \in Calls : GotResponse(c) /\ retDict[c].id = sequence_id[c]
  /\ retDict[1].id # retDict[2].id

\* C2: two calls on the same client object, with distinct ids: each call
\* ends with its own timeout or with the response whose id is its own id,
\* never with the response stored for the other call.
C2_IndependentOnOneClient ==
  DistinctIds =>
    \A c \in Calls :
      Finished(c) /\ ~EncodingFailed(c) =>
        \/ TimedOutCall(c)
        \/ GotResponse(c) /\ retDict[c].id = sequence_id[c]

\* C3: no state in which a call's envelope has been written to the command
\* key and the call has not yet registered its watch; while the call then
\* polls, the watch is registered.
C3_WatchBeforePut ==
  \A c \in Calls :
    c \in sent => c \in registered /\ (pc[c] = "poll" => c \in watches)

C3_Witness ==
  \E c \in Calls :
    c \in sent /\ pc[c] = "poll" /\ store.cmd = command_json[c] /\ c \in watches

\* C4: if the call's callback has stored a response with the call's id and
\* set the flag while the call was still in its poll loop, the call ends by
\* returning that response's val.response.
C4_DeliveredIsReturned ==
  \A c \in Calls :
    Finished(c) /\ delivered[c] # NoDict =>
      GotResponse(c) /\ ret[c] = delivered[c].response

\* C5 as stated, read in the way most favourable to it (every pass of the
\* loop runs when it is due: each sleep lasts exactly one poll interval):
\* a call that times out does so at an elapsed time t with
\* timeout <= t < timeout + poll interval.
C5_TimeoutWithinOnePoll ==
  \A c \in Calls :
    TimedOutCall(c) /\ ~drift[c] =>
      retTimeout[c] <= retTime[c] /\ retTime[c] < retTimeout[c] + PollInterval

\* C5 amended: a call that times out does so at an elapsed time t strictly
\* greater than timeout, and, when every pass of the loop ran when it was
\* due, t <= timeout + poll interval.
C5_TimeoutAfterTimeout ==
  \A c \in Calls :
    TimedOutCall(c) =>
      /\ retTime[c] > retTimeout[c]
      /\ ~drift[c] => retTime[c] <= retTimeout[c] + PollInterval

\* A call timed out, every pass on time, a full poll interval after timeout
C5_Witness ==
  \E c \in Calls :
    /\ TimedOutCall(c) /\ ~drift[c]
    /\ retTimeout[c] > 0
    /\ retTime[c] = retTimeout[c] + PollInterval

\* C6: exactly one response is accepted per call: the response a call
\* returns is the first response with its id that its callback stored while
\* the call was in progress; a duplicate does not replace it.
C6_FirstAcceptedIsReturned ==
  \A c \in Calls : GotResponse(c) => retDict[c] = delivered[c]

\* C7: a call that registered its watch and has returned, with a response
\* or with the timeout outcome, has its watch cancelled.
C7_WatchCancelledAtReturn ==
  \A c \in Calls : pc[c] = "returned" /\ c \in registered => c \notin watches

\* One call has returned a response and the other the timeout outcome
C7_Witness ==
  \E c \in Calls :
    /\ GotResponse(c) /\ c \in registered
    /\ TimedOutCall(Other(c)) /\ Other(c) \in registered

\* C8: the value returned on timeout differs from the value returned on an
\* encoding failure and from the value returned by any call that accepted
\* a response.
C8_TimeoutValueDistinct ==
  \A c, d \in Calls :
    TimedOutCall(c) /\ (EncodingFailed(d) \/ GotResponse(d)) => ret[c] # ret[d]

\* C9: a call whose Command Envelope cannot be JSON-encoded returns the
\* error result at once; it registers no watch, writes no key and leaves
\* the client's flag/response pair as it was.
C9_EncodingFailureSendsNothing ==
  /\ [](\A c \in Calls :
          pc[c] # "idle" /\ kwargs[c] = "unserialisable" =>
            /\ pc[c] = "returned" /\ ret[c] = PyFalse
            /\ c \notin registered /\ c \notin sent)
  /\ [][\A c \in Calls :
          pc[c] = "idle" /\ pc'[c] # "idle" /\ kwargs'[c] = "unserialisable" =>
            UNCHANGED << watches, pending, store, _response_received,
                         _response >>]_vars

\* An encoding failure on a client whose flag/response pair holds the
\* response of an earlier call
C9_Witness ==
  \E c \in Calls :
    /\ EncodingFailed(c) /\ ret[c] = PyFalse
    /\ _response_received[Obj(c)] /\ _response[Obj(c)] # NoDict

\* C10: events that are no JSON are logged and skipped: the watch stays
\* registered, the flag/response pair is not touched by the skipping, and
\* the first event with the call's id after them, in the same notification,
\* is the one the callback goes on to store; when there is none the
\* callback ends and the watch can deliver a later notification.
IsMatch(e, c) == e.kind = "resp" /\ e.id = sequence_id[c]

\* `left` is what the loop has left to handle after skipping, in `events`,
\* everything before the first event with the call's id
SkipsToFirstMatch(c, events, left) ==
  LET n == Len(events)
      skipped(j) == \A h \in 1..(j - 1) :
                      events[h].kind = "bad" \/
                      (events[h].kind = "resp" /\ ~IsMatch(events[h], c))
  IN /\ \A j \in 1..n :
          IsMatch(events[j], c) /\ skipped(j) => left = SubSeq(events, j, n)
     /\ skipped(n + 1) => left = <<>>

C10_DecodeFailureSkipped ==
  [][\A c \in Calls :
       LET n == Len(pending[c]) - Len(pending'[c])
           batch == SubSeq(pending[c], 1, n)
       IN \* a notification of n events is delivered to the call's callback
          (c \in watches /\ c \in watches' /\ n > 0 /\
           \E i \in 1..n : batch[i].kind = "bad") =>
            /\ SkipsToFirstMatch(c, batch, cbEvents'[c])
            /\ cbpc'[c] = IF cbEvents'[c] = <<>> THEN "idle" ELSE "store"
            /\ batch[1].kind = "bad" => <<c, "Response JSON decode error">> \in log'
            /\ UNCHANGED << watches, _response_received, _response, pc, ret >>
    ]_vars

\* A notification held an event that is no JSON and then an event with the
\* call's id, which the callback is now about to store
C10_Witness ==
  \E c \in Calls :
    /\ <<c, "Response JSON decode error">> \in log
    /\ cbpc[c] = "store"
    /\ IsMatch(Head(cbEvents[c]), c)
    /\ c \in watches

\* C11: a call whose callback stored, while the call was polling, a response
\* with the call's id and a val.status other than "normal" ends by returning
\* that response's val.response, as it would for the status "normal": it
\* does not end by the timeout, by the error result or by an exception, and
\* it returns no other value.
C11_NonNormalStillReturned ==
  \A c \in Calls :
    Finished(c) /\ delivered[c] # NoDict /\ delivered[c].status # "normal" =>
      /\ GotResponse(c)
      /\ ret[c] = delivered[c].response
      /\ ret[c] \notin {PyNone, PyFalse}

\* ------------------------------------------------- claims about part 2
\* an update call has built its coeffs
Built == coeffs # NoDict
\* the fractional second of the clock reading, in milliseconds
Frac == computedAt % MsPerSecond
\* apply time minus the clock reading, in milliseconds
Ahead == coeffs.when - computedAt

\* C12 as stated: for every slot in [0, 100) and every clock reading, the
\* apply time is at least 1.0 s and less than 2.0 s after the reading.
C12_OneToTwoSecondsAhead ==
  Built /\ slot \in 0..99 =>
    MsPerSecond <= Ahead /\ Ahead < 2 * MsPerSecond

\* C12 amended: for every slot in [0, 100) and every clock reading, the
\* apply time is more than 0 s and less than 2.0 s after the reading, and it
\* is at least 1.0 s after it exactly when slot/100 is at least the
\* fractional second of the reading.
C12_UpToTwoSecondsAhead ==
  Built /\ slot \in 0..99 =>
    /\ 0 < Ahead /\ Ahead < 2 * MsPerSecond
    /\ Ahead >= MsPerSecond <=> slot * MsPerSecond >= Frac * SlotsPerSecond

\* A reading with a fractional second larger than slot/100: the apply time
\* is less than a second ahead
C12_Witness ==
  Built /\ slot = 50 /\ Frac = 750 /\ Ahead = 750

\* C13: for every slot >= 0 and every clock reading, the `when` of the
\* coefficient update is strictly greater than the reading it was computed
\* from.
C13_WhenNotInThePast ==
  Built /\ slot >= 0 => coeffs.when > computedAt

\* The closest case: slot 0, read one millisecond before the next second
C13_Witness ==
  Built /\ slot = 0 /\ Frac = MsPerSecond - 1 /\ coeffs.when = computedAt + 1

\* C14: the apply time is floor(now) + 1 + slot/100, for every slot and
\* every non-negative clock reading now.
C14_FloorPlusOnePlusSlot ==
  Built /\ computedAt >= 0 =>
    coeffs.when * SlotsPerSecond =
      ((computedAt - Frac) + MsPerSecond) * SlotsPerSecond + slot * MsPerSecond

\* A reading in the second half of a second, with the last slot
C14_Witness ==
  Built /\ slot = 99 /\ Frac >= MsPerSecond \div 2 /\ computedAt > MsPerSecond

\* ------------------------------------------------- claims about part 3
\* the line update_subsel logs when it rejects a list of n entries
Rejection(u, n) ==
  <<u, "Tried to update baseline subselection with an array of length", n>>

\* C15: a call of update_subsel with a list whose length is not nvis_out
\* leaves _subsel, _subsel_next, _subsel_pending and the lock as they were,
\* returns without going on to the lock, and logs the rejection.
C15_WrongLengthRejected ==
  [][\A u \in Updaters, v \in UpdateArgs :
       UpdateEnter(u, v) /\ v.items # nvis_out =>
         /\ UNCHANGED << _subsel, _subsel_next, _subsel_pending, _subsel_lock >>
         /\ upc'[u] = "idle"
         /\ Rejection(u, v.items) \in blog'
    ]_vars

\* A too long list was rejected while an accepted update waits to be
\* consumed
C15_Witness ==
  \E u \in Updaters :
    /\ Rejection(u, nvis_out + 1) \in blog
    /\ upc[u] = "idle"
    /\ assigned /\ _subsel_pending /\ _subsel_next # _subsel

\* the arrays that are whole: the initial selection and the accepted updates
Whole == {Range(nvis_out)} \cup accepted

\* C16: an updating thread stores into _subsel_next and sets
\* _subsel_pending only while it holds the lock, and main() looks at them
\* only while it holds the lock; so when main() looks, _subsel_next is
\* whole, and it differs from what main() copied last only if
\* _subsel_pending is set.
C16_UpdateAtomicForLoop ==
  /\ \A u \in Updaters :
       upc[u] \in {"store", "set_pending", "release"} => _subsel_lock = u
  /\ mpc \in {"check", "clear", "release"} => _subsel_lock = Main
  /\ mpc = "check" =>
       /\ _subsel_next \in Whole
       /\ ~_subsel_pending => _subsel_next = _subsel

\* main() is about to consume an accepted update, after an earlier
\* consumption
C16_Witness ==
  /\ mpc = "check" /\ _subsel_lock = Main
  /\ assigned /\ _subsel_pending
  /\ _subsel_next = ListA.data /\ _subsel # _subsel_next

\* C17: _subsel changes only in the step of main() at lines 101-104, with
\* the lock held and the flag set, to the content of _subsel_next; from
\* there to the end of the span's work it does not change.
C17_LiveChangesOnlyAtCopy ==
  [][/\ _subsel' # _subsel =>
          /\ mpc = "check" /\ mpc' = "clear"
          /\ _subsel_lock = Main /\ _subsel_pending
          /\ _subsel' = _subsel_next
     /\ mpc \in {"clear", "release", "process"} => _subsel' = _subsel
    ]_vars

\* main() has just replaced one assigned selection by another
C17_Witness ==
  /\ mpc = "clear" /\ nspans = 2
  /\ <<Main, "Updating baseline subselection indices">> \in blog
  /\ _subsel = ListB.data

\* C18: whenever the lock is free and _subsel_pending is false, _subsel
\* equals _subsel_next.
C18_CleanMeansEqual ==
  _subsel_lock = NoHolder /\ ~_subsel_pending => _subsel = _subsel_next

\* Clean after accepted and rejected updates and two consumptions
C18_Witness ==
  /\ _subsel_lock = NoHolder /\ ~_subsel_pending
  /\ nupdates = MaxUpdates /\ nspans = 2
  /\ _subsel = ListA.data /\ ListB.data \in accepted

\* C19: once assigned, _subsel is at every moment the whole of the initial
\* selection or of one accepted update, never a mixture.
C19_LiveIsOneWholeUpdate ==
  assigned => _subsel \in Whole

\* _subsel holds one update while a thread is half way through storing
\* another into _subsel_next
C19_Witness ==
  \E u \in Updaters :
    /\ upc[u] = "store" /\ written[u] > 0 /\ subsel[u] = ListB
    /\ assigned /\ _subsel = ListA.data
    /\ _subsel_next \notin Whole

\* C20: no step of update_subsel or of _etcd_update_subsel changes _subsel;
\* every change of _subsel is a step of main().
C20_UpdatesLeaveLiveAlone ==
  [][/\ \A u \in Updaters : UpdaterStep(u) => _subsel' = _subsel
     /\ _subsel' # _subsel => MainStep
    ]_vars

\* An update has been stored and flagged, and _subsel still holds the
\* selection main() gave it
C20_Witness ==
  \E u \in Updaters :
    /\ upc[u] = "release" /\ _subsel_next = ListB.data /\ _subsel_pending
    /\ assigned /\ _subsel = Range(nvis_out)

\* C21: an update of nvis_out entries that cannot be stored into
\* _subsel_next ends without an exception and with the lock released: no
\* updating thread has ended by an exception, and none that has ended still
\* holds the lock.
C21_WrongShapeRejected ==
  \A u \in Updaters :
    /\ _subsel_lock = u => upc[u] \in {"store", "set_pending", "release"}
    /\ upc[u] = "raised" => _subsel_lock # u

\* ------------------------------------------- claims about parts 1b, 1c
\* the calls of get_status and of send_command made so far
StatusCalls == {n \in DOMAIN calls : calls[n].name = "get_status"}

SendCalls == {n \in DOMAIN calls : calls[n].name = "send_command"}

\* C22: a get_status call that finds no data at the status key returns
\* None, which is not the empty dict, and logs a warning that names the key,
\* whatever user_only is.
C22_AbsentIsNoneWithWarning ==
  \A n \in StatusCalls :
    calls[n].arg = NoneValue =>
      /\ calls[n].out = Returned(NoneValue)
      /\ calls[n].out # Returned(EmptyDict)
      /\ NoDataWarning(n, _get_mon_key(calls[n].a)) \in clog

\* both values of user_only have met an absent key
C22_Witness ==
  \E n, m \in StatusCalls :
    /\ calls[n].arg = NoneValue /\ calls[n].user_only
    /\ calls[m].arg = NoneValue /\ ~calls[m].user_only
    /\ calls[m].out = Returned(NoneValue)

\* C23: a get_status call that reads a status document (a JSON object)
\* returns, with user_only, the value under "stats" of the document, or the
\* empty dict when the document has no "stats"; without user_only it returns
\* the whole decoded document.
C23_StatsOrWholeDocument ==
  \A n \in StatusCalls, d \in StatusDocuments :
    calls[n].arg = JsonDumps(d) =>
      calls[n].out =
        IF calls[n].user_only
        THEN IF "stats" \in DOMAIN d.items
             THEN Returned(d.items["stats"])
             ELSE Returned(EmptyDict)
        ELSE Returned(d)

\* a document with "stats" and one without, both read with user_only, the
\* first with a subtree that is not empty
C23_Witness ==
  \E n, m \in StatusCalls :
    /\ calls[n].user_only /\ calls[n].arg = JsonDumps(WithStats)
    /\ calls[n].out = Returned(WithStats.items["stats"])
    /\ calls[n].out # Returned(EmptyDict)
    /\ calls[m].user_only /\ calls[m].arg = JsonDumps(WithoutStats)
    /\ calls[m].out = Returned(EmptyDict)

\* C24: a step that is a send_command call makes at most one store
\* operation, a put of json.dumps of the keyword arguments at the command key
\* of the address: exactly that one when json.dumps takes the arguments, none
\* when it raises.  No key other than the command key changes, and when the
\* call returns the command key holds the encoding.
C24_OnePutToCommandKey ==
  [][ (calls' # calls /\ calls'[Len(calls')].name = "send_command") =>
        LET c == calls'[Len(calls')]
            key == keyroot_cmd \o BlockPath(c.a) \o CtrlLit
            put == PutOp(key, JsonText(Encode(c.arg)))
        IN /\ ops' = IF Serialisable(c.arg) THEN Append(ops, put) ELSE ops
           /\ \A k \in DOMAIN kv' \cup DOMAIN kv :
                k # key => k \in DOMAIN kv /\ k \in DOMAIN kv' /\ kv'[k] = kv[k]
           /\ c.out = Returned(NoneValue) => Get(kv', key) = put.val
    ]_vars

\* a command was sent to one block after a status was published and a
\* command had been written for the other block: the store holds three keys
C24_Witness ==
  /\ Len(calls) = MaxCalls
  /\ \A n \in DOMAIN calls :
       calls[n].name = "send_command" /\ calls[n].out = Returned(NoneValue)
  /\ calls[1].a # calls[2].a
  /\ Len(ops) = 2
  /\ \E a \in Targets : _get_mon_key(a) \in DOMAIN kv

\* the characters of a decimal numeral of one or two digits, and its value
DigitValue(ch) == CHOOSE i \in 0..9 : Digits[i + 1] = ch

Numerals ==
  {<< Digits[i + 1] >> : i \in 0..9}
    \cup {<< Digits[i + 1], Digits[j + 1] >> : i \in 1..9, j \in 0..9}

NumeralValue(d) ==
  IF Len(d) = 1 THEN DigitValue(d[1])
  ELSE 10 * DigitValue(d[1]) + DigitValue(d[2])

\* the decimal numeral of n
Decimal(n) == CHOOSE d \in Numerals : NumeralValue(d) = n

SlashFree(a) ==
  /\ \A i \in DOMAIN a.host : a.host[i] # "/"
  /\ \A i \in DOMAIN a.block : a.block[i] # "/"

\* the layout of both keys, up to the last component
KeyLayout(root, a, last) ==
  root \o Slash \o a.host \o Slash \o PipelineLit \o Slash
    \o Decimal(a.pipeline) \o Slash \o a.block \o Slash
    \o Decimal(a.inst_id) \o Slash \o last

\* C25: the command key of an address is the command root, "/", the host,
\* "/pipeline/", the pipeline index in decimal, "/", the block name, "/", the
\* instance id in decimal, "/ctrl"; the status key is the same under the
\* monitor root with "/status"; and two different addresses whose host and
\* block have no "/" never have the same command key or the same status key.
C25_KeyLayoutAndInjective ==
  /\ \A i \in KeySlots :
       /\ cmd_key[i] # <<>> =>
            cmd_key[i] = KeyLayout(keyroot_cmd, address[i], CtrlLit)
       /\ mon_key[i] # <<>> =>
            mon_key[i] = KeyLayout(keyroot_mon, address[i], StatusLit)
  /\ \A i, j \in KeySlots :
       (/\ address[i] # address[j]
        /\ SlashFree(address[i])
        /\ SlashFree(address[j])) =>
         /\ (cmd_key[i] # <<>> /\ cmd_key[j] # <<>>) => cmd_key[i] # cmd_key[j]
         /\ (mon_key[i] # <<>> /\ mon_key[j] # <<>>) => mon_key[i] # mon_key[j]

\* both keys computed for two addresses that differ in the pipeline index
\* only, 0 and 10
C25_Witness ==
  /\ \A i \in KeySlots : cmd_key[i] # <<>> /\ mon_key[i] # <<>>
  /\ address[1] = [host |-> <<"h">>, pipeline |-> 0, block |-> <<"b">>, inst_id |-> 1]
  /\ address[2] = [address[1] EXCEPT !.pipeline = 10]
  /\ cmd_key[1] # cmd_key[2]

\* ------------------------------------- claims about the update messages
\* the command key of the block, from the documented layout
BeamformKey == KeyLayout(keyroot_cmd, BeamformBlock, CtrlLit)

\* what a consumer that reads the command key and decodes it has
Observed == Decode(kv[BeamformKey].json)

\* one put was made, at the command key, and the key holds what was put
OneCommandSent ==
  /\ Len(ops) = 1
  /\ ops[1].op = "put"
  /\ ops[1].key = BeamformKey
  /\ BeamformKey \in DOMAIN kv
  /\ kv[BeamformKey] = ops[1].val

\* w is the whole second of the clock reading, plus one second, plus
\* slot/100 seconds
IsApplyTime(w) ==
  w * SlotsPerSecond =
    ((computedAt - Frac) + MsPerSecond) * SlotsPerSecond + slot * MsPerSecond

\* the observed message has the four keys, the type, the id and the time
HeaderIs(type, idkey) ==
  /\ Observed.t = "dict"
  /\ DOMAIN Observed.items = {"type", idkey, "data", "when"}
  /\ Observed.items["type"] = PyStr(type)
  /\ Observed.items[idkey] = PyNum(update.id)
  /\ Observed.items["when"].t = "num"
  /\ IsApplyTime(Observed.items["when"].n)
  /\ Observed.items["data"].t = "list"

ObservedData == Observed.items["data"].elems

\* d is v itself
Same(d, v) == d = v

\* d is v rounded to single precision: a float32 not farther from v than
\* half the spacing
Rounded(d, v) ==
  /\ d % Float32Step = 0
  /\ 2 * (IF d >= v THEN d - v ELSE v - d) <= Float32Step

\* the observed data are the real and imaginary parts of the gains, in
\* turn, each related to the part by R
PartsInTurn(R(_, _)) ==
  /\ Len(ObservedData) = 2 * Len(update.array)
  /\ \A i \in 1..Len(update.array) :
       /\ ObservedData[2 * i - 1].t = "num"
       /\ ObservedData[2 * i].t = "num"
       /\ R(ObservedData[2 * i - 1].n, update.array[i].re)
       /\ R(ObservedData[2 * i].n, update.array[i].im)

\* C26, as stated: update_calibration_gains makes exactly one put, at the
\* command key of the block, of the message with type "calibration", the
\* given input_id, the apply time of the slot as when, and as data the 2n
\* numbers with entry 2i the real part and entry 2i+1 the imaginary part of
\* gains[i]; the consumer reads that message at the key.
C26_CalibrationMessageExact ==
  update.name = "update_calibration_gains" =>
    /\ OneCommandSent
    /\ HeaderIs("calibration", "input_id")
    /\ PartsInTurn(Same)

\* C26, amended: the same, with entry 2i the real part and entry 2i+1 the
\* imaginary part of gains[i] rounded to single precision.
C26_CalibrationMessageFloat32 ==
  update.name = "update_calibration_gains" =>
    /\ OneCommandSent
    /\ HeaderIs("calibration", "input_id")
    /\ PartsInTurn(Rounded)

\* two gains were sent, with parts that are float32 values and parts that
\* are not, for input 3 and slot 50
C26_Witness ==
  /\ update.name = "update_calibration_gains"
  /\ update.id = 3
  /\ slot = 50
  /\ update.array = << Complex(2, 1), Complex(3, 0) >>
  /\ OneCommandSent
  /\ Len(ObservedData) = 4

\* the complex array read back from a flat list: entries 2i and 2i+1 paired
PairUp(list) ==
  [i \in 1..(Len(list.elems) \div 2) |->
     Complex(list.elems[2 * i - 1].n, list.elems[2 * i].n)]

IsFloat32Array(gains) ==
  \A i \in DOMAIN gains :
    gains[i].re % Float32Step = 0 /\ gains[i].im % Float32Step = 0

\* C27: for gains whose parts are float32 values, pairing the even and odd
\* entries of the data list that update_calibration_gains built gives the
\* gains back; so no two such arrays have the same data list.
C27_PairingInvertsEncoding ==
  (update.name = "update_calibration_gains" /\ IsFloat32Array(update.array)) =>
    /\ Len(coeffs.data.elems) = 2 * Len(update.array)
    /\ PairUp(coeffs.data) = update.array

\* two gains with different real and imaginary parts were encoded
C27_Witness ==
  /\ update.name = "update_calibration_gains"
  /\ update.array = << Complex(2, 0), Complex(0, 2) >>
  /\ PairUp(coeffs.data) = update.array

\* C28: update_gains and update_delays make exactly one put, at the command
\* key of the block, of the message with type "gains" (respectively
\* "delays"), the given beam_id, the apply time of the slot as when, and as
\* data the numbers of the array, in its order and of its length.
C28_RealArrayPassedThrough ==
  update.name \in {"update_gains", "update_delays"} =>
    /\ OneCommandSent
    /\ HeaderIs(IF update.name = "update_gains" THEN "gains" ELSE "delays",
                "beam_id")
    /\ Len(ObservedData) = Len(update.array)
    /\ \A i \in 1..Len(update.array) : ObservedData[i] = PyNum(update.array[i])

\* delays that are no float32 values and not in increasing order were sent
\* for beam 3
C28_Witness ==
  /\ update.name = "update_delays"
  /\ update.id = 3
  /\ update.array = << 3, 1 >>
  /\ OneCommandSent
  /\ ObservedData = << PyNum(3), PyNum(1) >>

\* ------------------------------------------ claims about correlation ids
\* C29: two calls of _send_command_etcd made in one process have different
\* sequence ids, also when both read the clock at the same microsecond.
C29_IdsDistinctInProcess ==
  (pc[1] # "idle" /\ pc[2] # "idle") => sequence_id[1] # sequence_id[2]

\* ------------------------------------ claims about set_baseline_select
\* v is a list of nvis_out pairs of integers, [[int, int], ...] * N
IsListOfPairs(v) ==
  /\ v.t = "list"
  /\ Len(v.elems) = nvis_out
  /\ \A i \in DOMAIN v.elems :
       /\ v.elems[i].t = "list"
       /\ Len(v.elems[i].elems) = 2
       /\ \A j \in 1..2 : v.elems[i].elems[j].t = "num"

\* C30: a step that is a set_baseline_select call puts {"subsel": argument}
\* at the command key and returns exactly when the argument is a list of
\* nvis_out pairs of integers; for every other argument the call raises and
\* makes no store operation.
C30_SendsExactlyListsOfPairs ==
  [][ (calls' # calls /\ calls'[Len(calls')].name = "set_baseline_select") =>
        LET c == calls'[Len(calls')]
        IN IF IsListOfPairs(c.arg)
           THEN /\ c.out = Returned(NoneValue)
                /\ Len(ops') = Len(ops) + 1
                /\ ops'[Len(ops')].op = "put"
                /\ Decode(ops'[Len(ops')].val.json) = SubselKwargs(c.arg)
           ELSE /\ c.out.t = "raised"
                /\ ops' = ops /\ kv' = kv
    ]_vars

\* --------------------------------------------- claims about DummySource
\* C31: once main() has begun the output sequence, system_nchan of its
\* header is nchan, the number of channels the block was built with.
C31_SystemNchanIsNchan ==
  dpc # "init" => hdr["system_nchan"] = dsrc.nchan

\* ----------------------------------------- claims about the callback
\* a step of response_callback: a notification is handed to it, or it
\* stores the response, or it sets the flag
CallbackRuns ==
  \/ cbpc' # cbpc
  \/ cbEvents' # cbEvents
  \/ \E c \in Calls :
       c \in watches' /\ pending'[c] # pending[c] /\ nputs' = nputs

\* C32: a step of the watch callback leaves the store, the watch
\* registrations and the state of every call unchanged; it changes the
\* flag/response pair of its own client object only, and only while it
\* handles an event whose id is the id of its call, so a notification with
\* no such event leaves the pair unchanged.
C32_CallbackTouchesOnlyThePair ==
  [][ CallbackRuns =>
        /\ UNCHANGED << store, watches, pc, ret, kwargs, timeout, sequence_id,
                        command_json, starttime, wake, now, objOf >>
        /\ \A o \in Objs :
             (_response'[o] # _response[o]
                \/ _response_received'[o] # _response_received[o]) =>
               \E c \in Calls :
                 /\ Obj(c) = o
                 /\ cbpc[c] \in {"store", "flag"}
                 /\ Head(cbEvents[c]).kind = "resp"
                 /\ Head(cbEvents[c]).id = sequence_id[c]
    ]_vars

\* the callback of the second call has skipped the response to the first
\* call and stored the response to its own, and has not set the flag yet;
\* the command is in the store and both watches are registered
C32_Witness ==
  /\ cbpc[2] = "flag"
  /\ _response[Obj(2)] # NoDict
  /\ ~_response_received[Obj(2)]
  /\ Len(cbEvents[2]) = 1
  /\ nputs = 2
  /\ sequence_id[1] # sequence_id[2]
  /\ store.cmd # NoDict
  /\ watches = Calls

\* C33: a call that has ended, by a return or by an exception that leaves
\* it, has no watch registered; so also when the put of line 217 fails after
\* the watch was registered at line 215.
C33_NoWatchLeftAtAnyExit ==
  \A c \in Calls : pc[c] \in {"returned", "raised"} => c \notin watches

\* C34: when a notification is delivered whose events before the first one
\* with the call's id are texts that are no JSON, JSON values that are no
\* object, or responses with another id, and one of them is a JSON value
\* that is no object, the callback goes on to store that first event with
\* the call's id.
C34_NonObjectEventSkipped ==
  [][\A c \in Calls :
       LET n == Len(pending[c]) - Len(pending'[c])
           batch == SubSeq(pending[c], 1, n)
       IN (c \in watches /\ c \in watches' /\ n > 0) =>
            \A j \in 1..n :
              (/\ IsMatch(batch[j], c)
               /\ \A h \in 1..(j - 1) : ~IsMatch(batch[h], c)
               /\ \E h \in 1..(j - 1) : batch[h].kind = "nonobject") =>
                /\ cbEvents'[c] = SubSeq(batch, j, n)
                /\ cbpc'[c] = "store"
    ]_vars

\* the update of thread u, with the payload d, has been accepted, waits for
\* the lock, and is the latest: no other update is under way and none
\* arrives after it
LatestAccepted(u, d) ==
  /\ upc[u] = "acquire"
  /\ subsel[u].flat /\ subsel[u].data = d
  /\ nupdates = MaxUpdates
  /\ \A w \in Updaters \ {u} : upc[w] \in {"idle", "raised"}

\* C35: when updates stop arriving after an accepted update and spans keep
\* coming, then from some moment on _subsel is the payload of that update
\* and _subsel_pending is false.
C35_LatestUpdateBecomesLive ==
  \A u \in Updaters : \A d \in {ListA.data, ListB.data} :
    [](LatestAccepted(u, d) => <>[](_subsel = d /\ ~_subsel_pending))

\* C36: the block starts with _subsel_pending set and _subsel_next the
\* identity selection; while _subsel has not been assigned the flag stays
\* set, and whenever main() processes a span _subsel has been assigned and
\* holds the initial selection or an accepted update.
C36_LiveLoadedBeforeFirstUse ==
  /\ nspans = 0 /\ nupdates = 0 =>
       _subsel_pending /\ _subsel_next = Range(nvis_out)
  /\ ~assigned /\ mpc \in {"next_span", "acquire", "check"} => _subsel_pending
  /\ mpc = "process" => assigned /\ _subsel \in Whole

\* the first span is processed, with the identity selection, before any
\* update
C36_Witness ==
  /\ mpc = "process" /\ nspans = 1 /\ nupdates = 0
  /\ assigned /\ _subsel = Range(nvis_out)

\* the whole second a clock reading of t milliseconds lies in
WholeSecond(t) == CHOOSE q \in 0..(MaxWall \div MsPerSecond + 1) :
                    q * MsPerSecond <= t /\ t < (q + 1) * MsPerSecond

\* C37: two nodes that call _get_when_to_execute with the same slot at two
\* readings of the clock within one whole second get the same timestamp.
C37_SameSecondSameStamp ==
  \A n \in called, m \in called :
    (calledSlot[n] = calledSlot[m]
       /\ WholeSecond(calledAt[n]) = WholeSecond(calledAt[m])) =>
      stamp[n] = stamp[m]

\* two nodes have called with one slot at the two ends of one second, and
\* a call in the second before got another timestamp
C37_Witness ==
  /\ called = Nodes
  /\ calledSlot["node1"] = 50 /\ calledSlot["node2"] = 50
  /\ calledAt["node1"] = 1000 /\ calledAt["node2"] = 1999
  /\ stamp["node1"] = stamp["node2"]
  /\ stamp["node1"] # _get_when_to_execute(999, 50)

\* ------------------------------------------------- claims about part 5
\* C39: a configuration passed to updateConfig whose apply time lies after
\* the pipeline time of the call is, from the return of that call on, in
\* the pending queue with its apply time, or it has been applied at a
\* pipeline time that had reached its apply time.
C39_FutureConfigSavedThenApplied ==
  \A i \in DOMAIN passed :
    passed[i].pipeline_time < passed[i].config_time =>
      \/ \E k \in DOMAIN _pending :
           _pending[k] = << passed[i].config_time, passed[i].config >>
      \/ \E k \in DOMAIN cgains :
           /\ cgains[k].config = passed[i].config
           /\ cgains[k].pipeline_time >= passed[i].config_time

====
